---- MODULE Spec2Model ----
(***************************************************************************)
(* A model of sqlx-paginated: the column-safety validator                  *)
(* (ColumnProtection), the condition builder (QueryBuilder) with its two   *)
(* dialects, the pagination normalizers and the pagination orchestrator    *)
(* (PaginatedQueryBuilder::fetch_paginated).                               *)
(*                                                                         *)
(* Strings of the program are sequences of one-character strings, so that  *)
(* substring search, case folding and quoting are computed as the code     *)
(* computes them.  SQL text is a sequence of tokens.                       *)
(***************************************************************************)
EXTENDS Integers, Sequences, FiniteSets, TLC

VARIABLES
    protection,          \* ColumnProtection {blocked_patterns, allowed_patterns, allowed_system_columns}
    dialect,             \* QueryBuilder.dialect: "postgres" | "sqlite"
    valid_columns,       \* QueryBuilder.valid_columns
    protection_enabled,  \* QueryBuilder.protection_enabled
    conditions,          \* QueryBuilder.conditions
    arguments,           \* QueryBuilder.arguments
    params,              \* the QueryParams handed to the builder / orchestrator
    req,                 \* one fetch_paginated request: position, statements issued, response
    norm,                \* the parameter normalizer: raw input and normalized pagination
    call                 \* the last operation applied, its input and the state it started from

vars == <<protection, dialect, valid_columns, protection_enabled, conditions,
          arguments, params, req, norm, call>>

\* Option<T>: None is the empty sequence, Some(x) the sequence holding x
None == <<>>
Some(x) == <<x>>
unwrap(o) == o[1]

(***************************************************************************)
(* Characters and strings                                                  *)
(***************************************************************************)
UpperChars == <<"A","B","C","D","E","F","G","H","I","J","K","L","M",
                "N","O","P","Q","R","S","T","U","V","W","X","Y","Z">>
LowerChars == <<"a","b","c","d","e","f","g","h","i","j","k","l","m",
                "n","o","p","q","r","s","t","u","v","w","x","y","z">>
DigitChars == <<"0","1","2","3","4","5","6","7","8","9">>

Range(s) == {s[i] : i \in DOMAIN s}

\* char::is_ascii_digit
is_ascii_digit(c) == c \in Range(DigitChars)

\* char::is_ascii_alphanumeric
is_ascii_alphanumeric(c) ==
    c \in Range(UpperChars) \cup Range(LowerChars) \cup Range(DigitChars)

\* char::to_lowercase on the ASCII range
to_lowercase_char(c) ==
    IF \E i \in DOMAIN UpperChars : UpperChars[i] = c
    THEN LowerChars[CHOOSE i \in DOMAIN UpperChars : UpperChars[i] = c]
    ELSE c

\* str::to_lowercase
to_lowercase(s) == [i \in DOMAIN s |-> to_lowercase_char(s[i])]

\* str::contains(pattern)
contains(s, p) ==
    \E i \in 0..(Len(s) - Len(p)) : SubSeq(s, i + 1, i + Len(p)) = p

\* str::starts_with / str::ends_with for a single character
starts_with(s, c) == Len(s) > 0 /\ s[1] = c
ends_with(s, c) == Len(s) > 0 /\ s[Len(s)] = c

\* char::is_whitespace for the characters of the model
is_whitespace(c) == c \in {" ", "\t", "\n"}

RECURSIVE trim_start(_)
trim_start(s) ==
    IF s # <<>> /\ is_whitespace(Head(s)) THEN trim_start(Tail(s)) ELSE s

RECURSIVE trim_end(_)
trim_end(s) ==
    IF s # <<>> /\ is_whitespace(s[Len(s)])
    THEN trim_end(SubSeq(s, 1, Len(s) - 1))
    ELSE s

\* a trim that removes nothing
trim_nothing(s) == s

\* str::trim
trim(s) == trim_end(trim_start(s))

(***************************************************************************)
(* ColumnProtection                                                        *)
(***************************************************************************)
\* ColumnProtection::new
ColumnProtection_new ==
    [blocked_patterns |-> {}, allowed_patterns |-> {}, allowed_system_columns |-> {}]

\* the thirteen default blocked patterns
DefaultBlocked ==
    { <<"p","g","_">>,
      <<"i","n","f","o","r","m","a","t","i","o","n","_","s","c","h","e","m","a",".">>,
      <<"o","i","d">>,
      <<"t","a","b","l","e","o","i","d">>,
      <<"x","m","i","n">>,
      <<"x","m","a","x">>,
      <<"c","m","i","n">>,
      <<"c","m","a","x">>,
      <<"c","t","i","d">>,
      <<"p","g","_","c","a","t","a","l","o","g">>,
      <<"p","g","_","t","o","a","s","t">>,
      <<"p","g","_","t","e","m","p">>,
      <<"p","g","_","i","n","t","e","r","n","a","l">> }

\* ColumnProtection::add_default_blocks
add_default_blocks(p) ==
    [p EXCEPT !.blocked_patterns = @ \cup DefaultBlocked]

\* impl Default for ColumnProtection
ColumnProtection_default == add_default_blocks(ColumnProtection_new)

\* The structural part of is_safe: the "basic safety checks"
basic_safety_reject(value) ==
    \/ value = <<>>
    \/ ~ \A i \in DOMAIN value :
            is_ascii_alphanumeric(value[i]) \/ value[i] = "_" \/ value[i] = "."
    \/ contains(value, <<".", ".">>)
    \/ starts_with(value, ".")
    \/ ends_with(value, ".")

\* The block-pattern test of is_safe: the lower-cased identifier is searched for
\* each pattern as stored
blocked_match(p, value) ==
    \E pattern \in p.blocked_patterns : contains(to_lowercase(value), pattern)

\* is_safe with the block patterns consulted before the allow rules
is_safe_block_first(p, value) ==
    IF basic_safety_reject(value) THEN FALSE
    ELSE IF blocked_match(p, value) THEN FALSE
    ELSE TRUE

\* ColumnProtection::is_safe
is_safe(p, value) ==
    IF value \in p.allowed_system_columns THEN TRUE
    ELSE IF \E pattern \in p.allowed_patterns : contains(value, pattern) THEN TRUE
    ELSE IF basic_safety_reject(value) THEN FALSE
    ELSE ~ blocked_match(p, value)

\* ColumnProtection::block_pattern
block_pattern(p, pattern) ==
    [p EXCEPT !.blocked_patterns = @ \cup {pattern}]

\* ColumnProtection::allow_pattern
allow_pattern(p, pattern) ==
    [p EXCEPT !.allowed_patterns = @ \cup {pattern}]

\* allow_system_columns replacing the allow-list instead of extending it
allow_system_columns_replace(p, columns) ==
    [p EXCEPT !.allowed_system_columns = columns]

\* ColumnProtection::allow_system_columns
allow_system_columns(p, columns) ==
    [p EXCEPT !.allowed_system_columns = @ \cup columns]

(***************************************************************************)
(* SQL text.  A text is a sequence of tokens: a literal piece of a format  *)
(* string, a rendered identifier (its characters), a rendered placeholder  *)
(* or a rendered cast suffix.                                              *)
(***************************************************************************)
Lit(s) == [k |-> "lit", v |-> s]
Ident(chars) == [k |-> "ident", v |-> chars]
Placeholder(p) == [k |-> "placeholder", v |-> p]
Cast(s) == [k |-> "cast", v |-> s]

\* str::replace('"', "\"\"")
RECURSIVE double_quotes(_)
double_quotes(s) ==
    IF s = <<>> THEN <<>>
    ELSE IF Head(s) = "\"" THEN <<"\"", "\"">> \o double_quotes(Tail(s))
    ELSE <<Head(s)>> \o double_quotes(Tail(s))

\* the wrapper without the doubling of embedded quote characters
wrap_quotes_plain(s) == <<"\"">> \o s \o <<"\"">>

\* format!("\"{}\"", ident.replace('"', "\"\""))
wrap_quotes(s) == <<"\"">> \o double_quotes(s) \o <<"\"">>

\* str::split('.'): the parts between the dots, in order
RECURSIVE split_dot(_)
split_dot(s) ==
    IF \A i \in DOMAIN s : s[i] # "." THEN <<s>>
    ELSE LET i == CHOOSE j \in DOMAIN s :
                     s[j] = "." /\ \A m \in 1..(j - 1) : s[m] # "."
         IN  <<SubSeq(s, 1, i - 1)>> \o split_dot(SubSeq(s, i + 1, Len(s)))

\* [String]::join(sep) on character strings
RECURSIVE join(_, _)
join(parts, sep) ==
    IF parts = <<>> THEN <<>>
    ELSE IF Len(parts) = 1 THEN parts[1]
    ELSE parts[1] \o sep \o join(Tail(parts), sep)

\* internal_utils::quote_identifier: every dot-separated part quoted
quote_identifier(identifier) ==
    LET parts == split_dot(identifier)
    IN  join([i \in DOMAIN parts |-> wrap_quotes(parts[i])], <<".">>)

\* QueryDialect::quote_identifier of PostgresDialect and SqliteDialect
dialect_quote_identifier(d, ident) == wrap_quotes(ident)

\* a placeholder numbered from zero
placeholder_zero_based(d, position) ==
    IF d = "postgres" THEN <<"$", position - 1>> ELSE <<"?">>

\* QueryDialect::placeholder: "$<position>" for Postgres, "?" for SQLite
dialect_placeholder(d, position) ==
    IF d = "postgres" THEN <<"$", position>> ELSE <<"?">>

(***************************************************************************)
(* Decimal integers read from text (str::parse::<iN>)                      *)
(***************************************************************************)
digit_value(c) == (CHOOSE i \in DOMAIN DigitChars : DigitChars[i] = c) - 1

all_digits(s) == \A i \in DOMAIN s : is_ascii_digit(s[i])

RECURSIVE strip_leading_zeros(_)
strip_leading_zeros(s) ==
    IF Len(s) > 1 /\ Head(s) = "0" THEN strip_leading_zeros(Tail(s)) ELSE s

\* a <= b for digit strings of equal length
RECURSIVE digits_le(_, _)
digits_le(a, b) ==
    IF a = <<>> THEN TRUE
    ELSE IF digit_value(Head(a)) < digit_value(Head(b)) THEN TRUE
    ELSE IF digit_value(Head(a)) > digit_value(Head(b)) THEN FALSE
    ELSE digits_le(Tail(a), Tail(b))

\* the magnitude written by the digit string s is at most the one written by
\* the digit string bound
magnitude_le(s, bound) ==
    LET d == strip_leading_zeros(s)
    IN  \/ Len(d) < Len(bound)
        \/ Len(d) = Len(bound) /\ digits_le(d, bound)

I16_MAX == <<"3","2","7","6","7">>
I16_MIN_MAGNITUDE == <<"3","2","7","6","8">>
I32_MAX == <<"2","1","4","7","4","8","3","6","4","7">>
I32_MIN_MAGNITUDE == <<"2","1","4","7","4","8","3","6","4","8">>
I64_MAX == <<"9","2","2","3","3","7","2","0","3","6","8","5","4","7","7","5","8","0","7">>
I64_MIN_MAGNITUDE ==
    <<"9","2","2","3","3","7","2","0","3","6","8","5","4","7","7","5","8","0","8">>

\* str::parse::<iN>().is_ok(): an optional sign, at least one digit, in range
parses_int(s, max, min_magnitude) ==
    IF s = <<>> THEN FALSE
    ELSE IF Head(s) = "-"
         THEN Len(s) > 1 /\ all_digits(Tail(s)) /\ magnitude_le(Tail(s), min_magnitude)
    ELSE IF Head(s) = "+"
         THEN Len(s) > 1 /\ all_digits(Tail(s)) /\ magnitude_le(Tail(s), max)
    ELSE all_digits(s) /\ magnitude_le(s, max)

\* the value of a digit string short enough for the model's integers
RECURSIVE digits_to_int(_)
digits_to_int(s) ==
    IF s = <<>> THEN 0
    ELSE digits_to_int(SubSeq(s, 1, Len(s) - 1)) * 10 + digit_value(s[Len(s)])

is_ascii_hexdigit(c) ==
    is_ascii_digit(c) \/ c \in {"a","b","c","d","e","f","A","B","C","D","E","F"}

starts_with_str(s, prefix) ==
    Len(s) >= Len(prefix) /\ SubSeq(s, 1, Len(prefix)) = prefix

(***************************************************************************)
(* Dialect type casts                                                      *)
(***************************************************************************)
\* str::parse::<f32>().is_ok() on lower-cased text: an optional sign, then
\* inf, infinity or nan, or a decimal number with an optional exponent
is_mantissa(m) ==
    /\ \A i \in DOMAIN m : is_ascii_digit(m[i]) \/ m[i] = "."
    /\ Cardinality({i \in DOMAIN m : m[i] = "."}) <= 1
    /\ \E i \in DOMAIN m : is_ascii_digit(m[i])

is_exponent(x) ==
    LET d == IF x # <<>> /\ Head(x) \in {"+", "-"} THEN Tail(x) ELSE x
    IN  d # <<>> /\ all_digits(d)

parses_float(s) ==
    LET u == IF s # <<>> /\ Head(s) \in {"+", "-"} THEN Tail(s) ELSE s
    IN  \/ u \in { <<"i","n","f">>, <<"i","n","f","i","n","i","t","y">>, <<"n","a","n">> }
        \/ IF \E i \in DOMAIN u : u[i] = "e"
           THEN LET i == CHOOSE j \in DOMAIN u :
                             u[j] = "e" /\ \A m \in 1..(j - 1) : u[m] # "e"
                IN  is_mantissa(SubSeq(u, 1, i - 1))
                    /\ is_exponent(SubSeq(u, i + 1, Len(u)))
           ELSE is_mantissa(u)

(***************************************************************************)
(* Recognizers of the value classes of get_postgres_type_casting.  Each is *)
(* exact on ASCII text without backslash escapes whose date and time       *)
(* fields are written with their full width.                               *)
(***************************************************************************)
\* str::split(c): the parts between the occurrences of the character c
RECURSIVE split(_, _)
split(s, c) ==
    IF \A i \in DOMAIN s : s[i] # c THEN <<s>>
    ELSE LET i == CHOOSE j \in DOMAIN s : s[j] = c /\ \A m \in 1..(j - 1) : s[m] # c
         IN  <<SubSeq(s, 1, i - 1)>> \o split(SubSeq(s, i + 1, Len(s)), c)

\* the first index from i on that holds no JSON whitespace, Len(s) + 1 if none
skip_ws(s, i) ==
    LET rest == { j \in i..Len(s) : s[j] \notin {" ", "\t", "\n", "\r"} }
    IN  IF rest = {} THEN Len(s) + 1 ELSE CHOOSE j \in rest : \A m \in rest : j <= m

\* the index after the run of digits that starts at i (i itself if none)
digits_end(s, i) ==
    LET stop == { j \in i..Len(s) : ~ is_ascii_digit(s[j]) }
    IN  IF stop = {} THEN Len(s) + 1 ELSE CHOOSE j \in stop : \A m \in stop : j <= m

\* serde_json number at i: the index after it, 0 if there is none
json_number_end(s, i) ==
    LET a == IF i <= Len(s) /\ s[i] = "-" THEN i + 1 ELSE i
        b == digits_end(s, a)
        int_ok == b > a /\ (s[a] = "0" => b = a + 1)
        c == IF b <= Len(s) /\ s[b] = "." THEN digits_end(s, b + 1) ELSE b
        frac_ok == c = b \/ c > b + 1
        has_exp == c <= Len(s) /\ s[c] \in {"e", "E"}
        d == IF has_exp /\ c + 1 <= Len(s) /\ s[c + 1] \in {"+", "-"} THEN c + 2 ELSE c + 1
        e == IF has_exp THEN digits_end(s, d) ELSE c
        exp_ok == ~ has_exp \/ e > d
    IN  IF int_ok /\ frac_ok /\ exp_ok THEN e ELSE 0

\* serde_json string whose opening quote is at i - 1: the index after its
\* closing quote, 0 if it is not closed
json_string_end(s, i) ==
    LET close == { j \in i..Len(s) : s[j] = "\"" }
    IN  IF close = {} THEN 0
        ELSE LET j == CHOOSE k \in close : \A m \in close : k <= m
             IN  IF \E m \in i..(j - 1) : s[m] = "\\" THEN 0 ELSE j + 1

\* one step of the reader at position j, which holds no whitespace: stack
\* lists the open brackets, expect says what may come ("value", "first" for a
\* value or the end of an array, "member" for a key or the end of an object,
\* "key", "colon", "after" a value); i = 0 reports a syntax error
json_step(s, j, stack, expect) ==
    LET c == s[j]
        word(w) == j + Len(w) - 1 <= Len(s) /\ SubSeq(s, j, j + Len(w) - 1) = w
        fail == [i |-> 0, stack |-> stack, expect |-> expect]
        to(i, e) == IF i = 0 THEN fail ELSE [i |-> i, stack |-> stack, expect |-> e]
        open == [i |-> j + 1, stack |-> Append(stack, c),
                 expect |-> IF c = "{" THEN "member" ELSE "first"]
        close == [i |-> j + 1, stack |-> SubSeq(stack, 1, Len(stack) - 1),
                  expect |-> "after"]
        top == IF stack = <<>> THEN "" ELSE stack[Len(stack)]
    IN  IF expect \in {"value", "first"}
        THEN IF c \in {"{", "["} THEN open
             ELSE IF c = "]" THEN (IF expect = "first" THEN close ELSE fail)
             ELSE IF c = "\"" THEN to(json_string_end(s, j + 1), "after")
             ELSE IF word(<<"t","r","u","e">>) THEN to(j + 4, "after")
             ELSE IF word(<<"f","a","l","s","e">>) THEN to(j + 5, "after")
             ELSE IF word(<<"n","u","l","l">>) THEN to(j + 4, "after")
             ELSE to(json_number_end(s, j), "after")
        ELSE IF expect \in {"member", "key"}
        THEN IF c = "}" THEN (IF expect = "member" THEN close ELSE fail)
             ELSE IF c = "\"" THEN to(json_string_end(s, j + 1), "colon")
             ELSE fail
        ELSE IF expect = "colon"
        THEN IF c = ":" THEN to(j + 1, "value") ELSE fail
        ELSE IF top = "[" /\ c = "," THEN to(j + 1, "value")
        ELSE IF top = "[" /\ c = "]" THEN close
        ELSE IF top = "{" /\ c = "," THEN to(j + 1, "key")
        ELSE IF top = "{" /\ c = "}" THEN close
        ELSE fail

\* the reader from position j on, j past whitespace: TRUE if the text ends
\* after one whole value
RECURSIVE json_scan(_, _, _, _)
RECURSIVE json_next(_, _)
json_scan(s, j, stack, expect) ==
    IF j > Len(s) THEN expect = "after" /\ stack = <<>>
    ELSE json_next(s, json_step(s, j, stack, expect))

json_next(s, step) ==
    step.i # 0 /\ json_scan(s, skip_ws(s, step.i), step.stack, step.expect)

\* serde_json::from_str::<Value>(s).is_ok()
is_json(s) == json_scan(s, skip_ws(s, 1), <<>>, "value")

\* the XML arm: "<?xml" in front, or wrapped in angle brackets
is_xml(s) ==
    \/ starts_with_str(s, <<"<","?","x","m","l">>)
    \/ starts_with(s, "<") /\ ends_with(s, ">")

\* str::parse::<Ipv4Addr>().is_ok(): four decimal octets without leading zeros
is_octet(t) ==
    /\ Len(t) \in 1..3
    /\ all_digits(t)
    /\ (Len(t) > 1 => Head(t) # "0")
    /\ digits_to_int(t) <= 255

are_octets(parts) == Len(parts) = 4 /\ \A i \in DOMAIN parts : is_octet(parts[i])

is_ipv4(s) == are_octets(split(s, "."))

\* the number of 16-bit groups a colon-separated list writes, -1 if one of them
\* is malformed; the last may be an embedded IPv4 address, worth two groups
is_hextet(t) == Len(t) \in 1..4 /\ \A i \in DOMAIN t : is_ascii_hexdigit(t[i])

count_groups(parts) ==
    IF \A i \in 1..(Len(parts) - 1) : is_hextet(parts[i])
    THEN IF is_hextet(parts[Len(parts)]) THEN Len(parts)
         ELSE IF is_ipv4(parts[Len(parts)]) THEN Len(parts) + 1
         ELSE -1
    ELSE -1

ipv6_groups(t) == IF t = <<>> THEN 0 ELSE count_groups(split(t, ":"))

\* str::parse::<Ipv6Addr>().is_ok(): eight groups, or fewer around one "::"
around_gap(head, tail) == head >= 0 /\ tail >= 0 /\ head + tail <= 7

with_gaps(s, gaps) ==
    IF gaps = {} THEN ipv6_groups(s) = 8
    ELSE /\ Cardinality(gaps) = 1
         /\ \E i \in gaps : around_gap(ipv6_groups(SubSeq(s, 1, i - 1)),
                                       ipv6_groups(SubSeq(s, i + 2, Len(s))))

is_ipv6(s) ==
    with_gaps(s, { i \in 1..(Len(s) - 1) : s[i] = ":" /\ s[i + 1] = ":" })

\* str::parse::<IpAddr>().is_ok()
is_ip(s) == is_ipv4(s) \/ is_ipv6(s)

\* Uuid::parse_str(s).is_ok(): 32 hex digits, or the hyphenated form, bare,
\* in braces or after "urn:uuid:"
is_hex_run(t, n) == Len(t) = n /\ \A i \in DOMAIN t : is_ascii_hexdigit(t[i])

are_uuid_groups(parts) ==
    /\ Len(parts) = 5
    /\ is_hex_run(parts[1], 8) /\ is_hex_run(parts[2], 4)
    /\ is_hex_run(parts[3], 4) /\ is_hex_run(parts[4], 4)
    /\ is_hex_run(parts[5], 12)

is_hyphenated_uuid(s) == are_uuid_groups(split(s, "-"))

is_uuid(s) ==
    \/ is_hex_run(s, 32)
    \/ Len(s) = 36 /\ is_hyphenated_uuid(s)
    \/ Len(s) = 38 /\ s[1] = "{" /\ s[38] = "}" /\ is_hyphenated_uuid(SubSeq(s, 2, 37))
    \/ Len(s) = 45 /\ starts_with_str(s, <<"u","r","n",":","u","u","i","d",":">>)
          /\ is_hyphenated_uuid(SubSeq(s, 10, 45))

\* a decimal field of exactly n digits with a value in lo..hi
is_field(t, n, lo, hi) ==
    Len(t) = n /\ all_digits(t) /\ digits_to_int(t) \in lo..hi

days_in_month(year, month) ==
    IF month \in {4, 6, 9, 11} THEN 30
    ELSE IF month # 2 THEN 31
    ELSE IF year % 4 = 0 /\ (year % 100 # 0 \/ year % 400 = 0) THEN 29
    ELSE 28

\* NaiveDate::parse_from_str(s, "%Y-%m-%d").is_ok()
is_year_month_day(parts) ==
    /\ Len(parts) = 3
    /\ is_field(parts[1], 4, 0, 9999)
    /\ is_field(parts[2], 2, 1, 12)
    /\ is_field(parts[3], 2, 1,
                days_in_month(digits_to_int(parts[1]), digits_to_int(parts[2])))

is_naive_date(s) == is_year_month_day(split(s, "-"))

\* NaiveTime::parse_from_str(s, "%H:%M:%S").is_ok(); 60 is a leap second
is_hour_minute_second(parts) ==
    /\ Len(parts) = 3
    /\ is_field(parts[1], 2, 0, 23)
    /\ is_field(parts[2], 2, 0, 59)
    /\ is_field(parts[3], 2, 0, 60)

is_naive_time(s) == is_hour_minute_second(split(s, ":"))

\* NaiveDateTime::parse_from_str(s, "%Y-%m-%d %H:%M:%S").is_ok()
is_naive_datetime(s) ==
    /\ Len(s) = 19 /\ s[11] = " "
    /\ is_naive_date(SubSeq(s, 1, 10))
    /\ is_naive_time(SubSeq(s, 12, 19))

\* the offset of an RFC 3339 timestamp: "z" or a signed hh:mm
is_offset(t) ==
    \/ t \in { <<"z">>, <<"Z">> }
    \/ /\ Len(t) = 6 /\ t[1] \in {"+", "-"} /\ t[4] = ":"
       /\ is_field(SubSeq(t, 2, 3), 2, 0, 23)
       /\ is_field(SubSeq(t, 5, 6), 2, 0, 59)

\* DateTime::parse_from_rfc3339(s).is_ok(), seconds without a fraction
is_rfc3339(s) ==
    /\ Len(s) >= 20 /\ s[11] \in {"t", "T", " "}
    /\ is_naive_date(SubSeq(s, 1, 10))
    /\ is_naive_time(SubSeq(s, 12, 19))
    /\ is_offset(SubSeq(s, 20, Len(s)))

\* The values drawn as filter and condition values: shorter than a UUID, made
\* of letters, digits, spaces and underscores with an optional leading sign.
\* Such a value is no JSON, XML, address, UUID, date or time text.
is_plain_value(s) ==
    /\ Len(s) < 32
    /\ \A i \in DOMAIN s :
          \/ is_ascii_alphanumeric(s[i])
          \/ s[i] \in {" ", "_"}
          \/ (i = 1 /\ s[i] \in {"+", "-"})

\* postgres_dialect_utils::get_postgres_type_casting: the arms in order, the
\* first that matches decides.  A text that parses as f64 also parses as f32
\* (it rounds to infinity instead of failing), so the f64 arm is never reached.
is_sentinel(value) ==
    value \in { <<"n","u","l","l">>, <<"n","a","n">>,
                <<"i","n","f","i","n","i","t","y">>,
                <<"-","i","n","f","i","n","i","t","y">> }

is_bytea(value) ==
    /\ starts_with_str(value, <<"\\", "x">>)
    /\ \A i \in 3..Len(value) : is_ascii_hexdigit(value[i])

is_boolean(value) ==
    value \in { <<"t">>, <<"f">>, <<"t","r","u","e">>, <<"f","a","l","s","e">> }

match_value(value) ==
    IF is_sentinel(value) THEN ""
    ELSE IF is_bytea(value) THEN "::bytea"
    ELSE IF starts_with(value, "{") \/ starts_with(value, "[")
    THEN IF is_json(value) THEN "::jsonb" ELSE ""
    ELSE IF is_xml(value) THEN "::xml"
    ELSE IF is_ip(value) THEN "::inet"
    ELSE IF is_ipv4(value) THEN "::inet"
    ELSE IF is_ipv6(value) THEN "::inet"
    ELSE IF is_uuid(value) THEN "::uuid"
    ELSE IF is_naive_datetime(value) THEN "::timestamp without time zone"
    ELSE IF is_naive_date(value) THEN "::date"
    ELSE IF is_naive_time(value) THEN "::time"
    ELSE IF is_rfc3339(value) THEN "::timestamp with time zone"
    ELSE IF is_boolean(value) THEN "::boolean"
    ELSE IF parses_int(value, I16_MAX, I16_MIN_MAGNITUDE) THEN "::smallint"
    ELSE IF parses_int(value, I32_MAX, I32_MIN_MAGNITUDE) THEN "::integer"
    ELSE IF parses_int(value, I64_MAX, I64_MIN_MAGNITUDE) THEN "::bigint"
    ELSE IF parses_float(value) THEN "::real"
    ELSE IF parses_float(value) THEN "::double precision"
    ELSE ""

get_postgres_type_casting(raw) == match_value(to_lowercase(trim(raw)))

\* internal_utils::get_postgres_type_casting, the second definition of the
\* name: no trim, one integer and one float width, no sentinel, byte, XML,
\* address, date or time arm
internal_utils_match_value(value) ==
    IF is_boolean(value) THEN "::boolean"
    ELSE IF parses_int(value, I64_MAX, I64_MIN_MAGNITUDE) THEN "::bigint"
    ELSE IF parses_float(value) THEN "::double precision"
    ELSE IF is_uuid(value) THEN "::uuid"
    ELSE IF starts_with(value, "{") \/ starts_with(value, "[")
    THEN IF is_json(value) THEN "::jsonb" ELSE ""
    ELSE IF is_rfc3339(value) THEN "::timestamp with time zone"
    ELSE ""

internal_utils_get_postgres_type_casting(raw) ==
    internal_utils_match_value(to_lowercase(raw))

\* QueryDialect::type_cast: the inferred cast for Postgres, none for SQLite
dialect_type_cast(d, value) ==
    IF d = "postgres" THEN get_postgres_type_casting(value) ELSE ""

(***************************************************************************)
(* QueryBuilder.  A builder value is the record of its fields.             *)
(***************************************************************************)
\* QueryBuilder::has_column
has_column(b, column) == column \in b.valid_columns

\* is_column_safe without the is_safe check
is_column_safe_exists_only(b, column) == has_column(b, column)

\* is_column_safe without the has_column check
is_column_safe_no_exists(b, column) ==
    IF b.protection_enabled /\ b.protection # None
    THEN is_safe(unwrap(b.protection), column)
    ELSE TRUE

\* QueryBuilder::is_column_safe
is_column_safe(b, column) ==
    LET column_exists == has_column(b, column)
    IN  IF ~ b.protection_enabled THEN column_exists
        ELSE IF b.protection # None
             THEN column_exists /\ is_safe(unwrap(b.protection), column)
             ELSE column_exists

\* Arguments::add followed by unwrap_or_default
add_argument(b, ty, value) ==
    [b EXCEPT !.arguments = Append(@, [ty |-> ty, v |-> value])]

\* Vec::push on conditions
push_condition(b, fragment) ==
    [b EXCEPT !.conditions = Append(@, fragment)]

\* one "LOWER(col) LIKE LOWER(placeholder)" of with_search
search_condition(b, column, next_argument) ==
    << Lit("LOWER("),
       Ident(dialect_quote_identifier(b.dialect, column)),
       Lit(") LIKE LOWER("),
       Placeholder(dialect_placeholder(b.dialect, next_argument)),
       Lit(")") >>

\* search_conditions.join(" OR ")
RECURSIVE join_tokens(_, _)
join_tokens(fragments, sep) ==
    IF fragments = <<>> THEN <<>>
    ELSE IF Len(fragments) = 1 THEN fragments[1]
    ELSE fragments[1] \o <<Lit(sep)>> \o join_tokens(Tail(fragments), sep)

\* QueryBuilder::with_search
with_search(b, p) ==
    IF p.search.search = None \/ p.search.search_columns = None THEN b
    ELSE
      LET search == unwrap(p.search.search)
          valid_search_columns ==
              SelectSeq(unwrap(p.search.search_columns),
                        LAMBDA c : is_column_safe(b, c))
      IN  IF valid_search_columns # <<>> /\ trim(search) # <<>>
          THEN LET pattern == <<"%">> \o search \o <<"%">>
                   next_argument == Len(b.arguments) + 1
                   search_conditions ==
                       [i \in DOMAIN valid_search_columns |->
                           search_condition(b, valid_search_columns[i], next_argument)]
               IN  add_argument(
                       push_condition(b,
                           <<Lit("(")>> \o join_tokens(search_conditions, " OR ")
                                        \o <<Lit(")")>>),
                       "string", pattern)
          ELSE b

\* the body of the loop of with_filters for one (key, value) entry
filter_entry(b, key, value) ==
    IF is_column_safe(b, key)
    THEN IF value # None
         THEN LET table_column == dialect_quote_identifier(b.dialect, key)
                  type_cast == dialect_type_cast(b.dialect, unwrap(value))
                  next_argument == Len(b.arguments) + 1
                  placeholder == dialect_placeholder(b.dialect, next_argument)
              IN  add_argument(
                      push_condition(b,
                          << Ident(table_column), Lit(" = "),
                             Placeholder(placeholder), Cast(type_cast) >>),
                      "string", unwrap(value))
         ELSE b
    ELSE b

\* the loop of with_filters over the entries in the map's iteration order
RECURSIVE filter_entries(_, _)
filter_entries(b, entries) ==
    IF entries = <<>> THEN b
    ELSE filter_entries(filter_entry(b, Head(entries).key, Head(entries).value),
                        Tail(entries))

\* QueryBuilder::with_filters
with_filters(b, p) == filter_entries(b, p.filters)

\* one bound of with_date_range: "<date_column> <op> $<next_argument>"
date_bound(b, date_column, op, bound) ==
    IF bound # None
    THEN LET next_argument == Len(b.arguments) + 1
         IN  add_argument(
                 push_condition(b,
                     << Ident(date_column), Lit(op),
                        Placeholder(<<"$", next_argument>>) >>),
                 "datetime", unwrap(bound))
    ELSE b

\* QueryBuilder::with_date_range
with_date_range(b, p) ==
    IF p.date_range.date_column = None THEN b
    ELSE LET date_column == unwrap(p.date_range.date_column)
         IN  IF is_column_safe(b, date_column)
             THEN date_bound(
                      date_bound(b, date_column, " >= ", p.date_range.date_after),
                      date_column, " <= ", p.date_range.date_before)
             ELSE b

\* QueryBuilder::with_condition
with_condition(b, column, condition, value) ==
    IF is_column_safe(b, column)
    THEN LET next_argument == Len(b.arguments) + 1
         IN  add_argument(
                 push_condition(b,
                     << Ident(quote_identifier(column)), Lit(" "),
                        [k |-> "raw", v |-> condition], Lit(" "),
                        Placeholder(<<"$", next_argument>>) >>),
                 "string", value)
    ELSE b

\* a with_raw_condition that puts the condition in front
with_raw_condition_first(b, condition) ==
    [b EXCEPT !.conditions = << << [k |-> "raw", v |-> condition] >> >> \o @]

\* QueryBuilder::with_raw_condition
with_raw_condition(b, condition) ==
    push_condition(b, << [k |-> "raw", v |-> condition] >>)

\* QueryBuilder::disable_protection
disable_protection(b) == [b EXCEPT !.protection_enabled = FALSE]

\* QueryBuilder::build
build(b) == <<b.conditions, b.arguments>>

\* QueryBuilder::<T, Postgres>::new and QueryBuilder::<T, Sqlite>::new for a
\* record type with the given serialized field names
QueryBuilder_new(d, fields) ==
    [ conditions |-> <<>>,
      arguments |-> <<>>,
      valid_columns |-> fields,
      protection |-> Some(ColumnProtection_default),
      protection_enabled |-> TRUE,
      dialect |-> d ]

(***************************************************************************)
(* Identifiers and patterns the validator is exercised with                *)
(***************************************************************************)
password == <<"p","a","s","s","w","o","r","d">>
pg_class == <<"p","g","_","c","l","a","s","s">>
information_schema_tables ==
    <<"i","n","f","o","r","m","a","t","i","o","n","_","s","c","h","e","m","a",
      ".","t","a","b","l","e","s">>
ctid == <<"c","t","i","d">>
xmin == <<"x","m","i","n">>
cmax == <<"c","m","a","x">>
oid == <<"o","i","d">>
user_id == <<"u","s","e","r","_","i","d">>
users_ == <<"u","s","e","r","s","_">>
users_table == <<"u","s","e","r","s","_","t","a","b","l","e">>
users_view == <<"u","s","e","r","s","_","v","i","e","w">>
users_secret == <<"u","s","e","r","s","_","s","e","c","r","e","t">>
secret_ == <<"s","e","c","r","e","t","_">>
Secret_ == <<"S","e","c","r","e","t","_">>
secret_key == <<"s","e","c","r","e","t","_","k","e","y">>
SECRET_KEY == <<"S","E","C","R","E","T","_","K","E","Y">>
CTID == <<"C","T","I","D">>
public_ == <<"p","u","b","l","i","c","_">>
public_data == <<"p","u","b","l","i","c","_","d","a","t","a">>
public_drop == <<"p","u","b","l","i","c","_",";","D","R","O","P">>
dotdot == <<"a",".",".","b">>
leading_dot == <<".","a">>
trailing_dot == <<"a",".">>
semicolon == <<"a",";","b">>
empty == <<>>

\* identifiers handed to is_safe
Idents ==
    { pg_class, information_schema_tables, ctid, xmin, cmax, oid, user_id,
      users_table, users_view, users_secret, secret_key, SECRET_KEY, CTID,
      public_data, public_drop, dotdot, leading_dot, trailing_dot, semicolon,
      empty }

\* patterns handed to block_pattern and allow_pattern, columns handed to
\* allow_system_columns
BlockPool == { users_, secret_, Secret_ }
AllowPool == { users_table, public_ }
SystemPool == { ctid, xmin, users_view, semicolon }

\* the number of configuration calls made on one ColumnProtection
MaxConfigCalls == 3

(***************************************************************************)
(* Values of the variables a specification does not use                    *)
(***************************************************************************)
NoCall == [op |-> "new", n |-> 0]
IdleParams == "idle"
IdleReq == "idle"
IdleNorm == "idle"

BuilderIdle ==
    /\ dialect = "postgres"
    /\ valid_columns = {}
    /\ protection_enabled = TRUE
    /\ conditions = <<>>
    /\ arguments = <<>>

(***************************************************************************)
(* Specification of the validator: a ColumnProtection is created (new or   *)
(* default) and configured by any sequence of calls                        *)
(***************************************************************************)
InitProtection ==
    /\ protection \in {ColumnProtection_new, ColumnProtection_default}
    /\ BuilderIdle
    /\ params = IdleParams
    /\ req = IdleReq
    /\ norm = IdleNorm
    /\ call = NoCall

BlockPattern ==
    /\ call.n < MaxConfigCalls
    /\ \E pattern \in BlockPool :
          /\ protection' = block_pattern(protection, pattern)
          /\ call' = [op |-> "block_pattern", n |-> call.n + 1,
                      arg |-> {pattern}, before |-> protection]
    /\ UNCHANGED <<dialect, valid_columns, protection_enabled, conditions,
                   arguments, params, req, norm>>

AllowPattern ==
    /\ call.n < MaxConfigCalls
    /\ \E pattern \in AllowPool :
          /\ protection' = allow_pattern(protection, pattern)
          /\ call' = [op |-> "allow_pattern", n |-> call.n + 1,
                      arg |-> {pattern}, before |-> protection]
    /\ UNCHANGED <<dialect, valid_columns, protection_enabled, conditions,
                   arguments, params, req, norm>>

AllowSystemColumns ==
    /\ call.n < MaxConfigCalls
    /\ \E columns \in SUBSET SystemPool :
          /\ protection' = allow_system_columns(protection, columns)
          /\ call' = [op |-> "allow_system_columns", n |-> call.n + 1,
                      arg |-> columns, before |-> protection]
    /\ UNCHANGED <<dialect, valid_columns, protection_enabled, conditions,
                   arguments, params, req, norm>>

NextProtection == BlockPattern \/ AllowPattern \/ AllowSystemColumns

SpecProtection == InitProtection /\ [][NextProtection]_vars

(***************************************************************************)
(* Claims about the validator                                              *)
(***************************************************************************)
\* an allow rule of configuration p matches the identifier
allow_match(p, value) ==
    \/ value \in p.allowed_system_columns
    \/ \E pattern \in p.allowed_patterns : contains(value, pattern)

\* C4: with the default ColumnProtection pg_class, information_schema.tables
\* and ctid are unsafe and user_id is safe; allow_system_columns(S) makes
\* exactly the identifiers of S safe and leaves the verdict of every other
\* identifier as it was.
C4_AllowListFlipsExactlyS ==
    /\ protection = ColumnProtection_default =>
          /\ ~ is_safe(protection, pg_class)
          /\ ~ is_safe(protection, information_schema_tables)
          /\ ~ is_safe(protection, ctid)
          /\ is_safe(protection, user_id)
    /\ call.op = "allow_system_columns" =>
          \A id \in Idents :
             is_safe(protection, id) = (id \in call.arg \/ is_safe(call.before, id))

\* C4 witness: on a default configuration ctid and xmin were allow-listed; they
\* are now safe while cmax and oid are still blocked.
C4_Witness ==
    /\ call.op = "allow_system_columns"
    /\ call.before = ColumnProtection_default
    /\ call.arg = {ctid, xmin}
    /\ ~ is_safe(call.before, ctid)
    /\ is_safe(protection, ctid) /\ is_safe(protection, xmin)
    /\ ~ is_safe(protection, cmax) /\ ~ is_safe(protection, oid)

\* C5: an identifier matching an allow rule (allow-listed system column or
\* allow pattern) is safe even when it contains a block pattern, in whatever
\* order the rules were added.
C5_AllowBeatsBlock ==
    \A id \in Idents : allow_match(protection, id) => is_safe(protection, id)

\* C5 witness: the block pattern users_ was added after the allow pattern
\* users_table, and users_table is safe although it contains users_.
C5_Witness ==
    /\ call.op = "block_pattern"
    /\ call.arg = {users_}
    /\ users_table \in protection.allowed_patterns
    /\ blocked_match(protection, users_table)
    /\ is_safe(protection, users_table)
    /\ ~ is_safe(protection, users_secret)

\* C6 as claimed: a structurally malformed identifier is rejected whatever
\* allow rules are configured.
C6_StructuralCheckFirst ==
    \A id \in Idents : basic_safety_reject(id) => ~ is_safe(protection, id)

\* C7 as claimed: a structurally valid identifier that matches no allow rule
\* and contains a block pattern, compared ignoring case, is unsafe.
C7_BlockIgnoresCase ==
    \A id \in Idents : \A pattern \in protection.blocked_patterns :
        ( /\ ~ basic_safety_reject(id)
          /\ ~ allow_match(protection, id)
          /\ contains(to_lowercase(id), to_lowercase(pattern)) )
        => ~ is_safe(protection, id)

(***************************************************************************)
(* Specification of the condition builder: a fresh QueryBuilder for one    *)
(* record type and dialect, and any sequence of its operations applied     *)
(* with one QueryParams                                                    *)
(***************************************************************************)
name == <<"n","a","m","e">>
status == <<"s","t","a","t","u","s">>
email == <<"e","m","a","i","l">>
description == <<"d","e","s","c","r","i","p","t","i","o","n">>
created_at == <<"c","r","e","a","t","e","d","_","a","t">>
active == <<"a","c","t","i","v","e">>
john == <<"j","o","h","n">>
blank == <<" ", " ">>
one == <<"1">>
eighteen == <<"1","8">>

\* the serialized field names of the record type T: two ordinary fields, a
\* timestamp field and a field whose name the validator blocks
RecordFields == { name, status, created_at, oid }

DefaultPagination == [page |-> 1, page_size |-> 10]
DefaultSort == [sort_column |-> created_at, sort_direction |-> "Descending"]

SearchPool ==
    << [search |-> None,        search_columns |-> Some(<<name, description>>)],
       [search |-> Some(john),  search_columns |-> Some(<<name, status>>)],
       [search |-> Some(john),  search_columns |-> Some(<<status>>)],
       [search |-> Some(blank), search_columns |-> Some(<<name>>)],
       [search |-> Some(empty), search_columns |-> Some(<<name>>)],
       [search |-> Some(john),  search_columns |-> None],
       [search |-> Some(john),  search_columns |-> Some(<<>>)],
       [search |-> Some(john),  search_columns |-> Some(<<email, oid>>)] >>

\* filter maps, each in the iteration order of its instance
FiltersPool ==
    << <<>>,
       << [key |-> status, value |-> Some(active)] >>,
       << [key |-> email, value |-> Some(active)] >>,
       << [key |-> email, value |-> Some(active)], [key |-> status, value |-> Some(one)] >>,
       << [key |-> status, value |-> Some(one)], [key |-> email, value |-> Some(active)] >>,
       << [key |-> oid, value |-> Some(one)], [key |-> name, value |-> None] >>,
       << [key |-> name, value |-> Some(empty)], [key |-> status, value |-> Some(active)] >> >>

DatePool ==
    << [date_column |-> Some(created_at), date_after |-> None, date_before |-> None],
       [date_column |-> Some(created_at), date_after |-> Some("t1"), date_before |-> None],
       [date_column |-> Some(created_at), date_after |-> Some("t1"), date_before |-> Some("t2")],
       [date_column |-> Some(email), date_after |-> Some("t1"), date_before |-> Some("t2")],
       [date_column |-> None, date_after |-> Some("t1"), date_before |-> Some("t2")],
       [date_column |-> Some(oid), date_after |-> None, date_before |-> Some("t2")] >>

\* the QueryParams drawn: every pair of group values occurs together
ParamsPool ==
    { [ pagination |-> DefaultPagination,
        sort |-> DefaultSort,
        search |-> SearchPool[i],
        filters |-> FiltersPool[j],
        date_range |-> DatePool[((i + j) % Len(DatePool)) + 1] ]
      : i \in DOMAIN SearchPool, j \in DOMAIN FiltersPool }

\* columns handed to with_condition
ConditionColumns == { status, email, oid }

\* the number of fragments after which no further operation is applied
MaxConditions == 3

Builder ==
    [ conditions |-> conditions,
      arguments |-> arguments,
      valid_columns |-> valid_columns,
      protection |-> Some(protection),
      protection_enabled |-> protection_enabled,
      dialect |-> dialect ]

\* the builder the last operation started from
Before == [Builder EXCEPT !.conditions = call.before.conditions,
                          !.arguments = call.before.arguments]

SetBuilder(b) ==
    /\ conditions' = b.conditions
    /\ arguments' = b.arguments
    /\ protection_enabled' = b.protection_enabled
    /\ UNCHANGED <<protection, dialect, valid_columns, params, req, norm>>

Called(op, arg) ==
    call' = [op |-> op, arg |-> arg,
             before |-> [conditions |-> conditions, arguments |-> arguments]]

InitBuilder ==
    /\ \E d \in {"postgres", "sqlite"} :
         LET b == QueryBuilder_new(d, RecordFields)
         IN  /\ conditions = b.conditions
             /\ arguments = b.arguments
             /\ valid_columns = b.valid_columns
             /\ protection = unwrap(b.protection)
             /\ protection_enabled = b.protection_enabled
             /\ dialect = b.dialect
    /\ params \in ParamsPool
    /\ req = IdleReq
    /\ norm = IdleNorm
    /\ call = [op |-> "new", arg |-> "none",
               before |-> [conditions |-> <<>>, arguments |-> <<>>]]

WithSearch ==
    /\ Len(conditions) < MaxConditions
    /\ SetBuilder(with_search(Builder, params))
    /\ Called("with_search", "params")

WithFilters ==
    /\ Len(conditions) < MaxConditions
    /\ SetBuilder(with_filters(Builder, params))
    /\ Called("with_filters", "params")

WithDateRange ==
    /\ Len(conditions) < MaxConditions
    /\ SetBuilder(with_date_range(Builder, params))
    /\ Called("with_date_range", "params")

WithCondition ==
    /\ Len(conditions) < MaxConditions
    /\ \E column \in ConditionColumns :
          /\ SetBuilder(with_condition(Builder, column, ">", eighteen))
          /\ Called("with_condition", column)

DisableProtection ==
    /\ Len(conditions) < MaxConditions
    /\ protection_enabled
    /\ SetBuilder(disable_protection(Builder))
    /\ Called("disable_protection", "none")

NextBuilder ==
    WithSearch \/ WithFilters \/ WithDateRange \/ WithCondition \/ DisableProtection

SpecBuilder == InitBuilder /\ [][NextBuilder]_vars

(***************************************************************************)
(* Claims about the condition builder                                      *)
(***************************************************************************)
\* the identifier tokens of a list of fragments
IdentTokens(fragments) ==
    { token \in UNION { Range(fragments[i]) : i \in DOMAIN fragments } :
        token.k = "ident" }

\* the columns drawn anywhere in this specification
ColumnPool ==
    RecordFields \cup ConditionColumns \cup
    { email, description, password,
      pg_class }

\* the columns an identifier token names: those it is a rendering of
NamedColumns(token) ==
    { c \in ColumnPool :
        token.v \in { c, quote_identifier(c), dialect_quote_identifier(dialect, c) } }

\* C1: while protection is enabled, every column named in a fragment that
\* with_search, with_filters, with_date_range or with_condition emitted is a
\* field of the record type and is_safe.
C1_EmittedColumnsAreSafe ==
    protection_enabled =>
        \A token \in IdentTokens(conditions) :
            /\ NamedColumns(token) # {}
            /\ \A c \in NamedColumns(token) :
                  has_column(Builder, c) /\ is_safe(protection, c)

\* C1 witness: with protection enabled, with_condition was handed the field oid,
\* which is_safe rejects, and emitted nothing, while an earlier call emitted a
\* fragment naming the field status.
C1_Witness ==
    /\ protection_enabled
    /\ call.op = "with_condition"
    /\ call.arg = oid
    /\ has_column(Builder, oid) /\ ~ is_safe(protection, oid)
    /\ conditions = call.before.conditions
    /\ \E token \in IdentTokens(conditions) : status \in NamedColumns(token)

\* the filter entries whose key is a field of the record type
FieldEntries(entries) == SelectSeq(entries, LAMBDA e : e.key \in valid_columns)

\* C3: a filter, condition or date range on a column that is no field of the
\* record type leaves fragments and arguments as if it had not been supplied.
C3_UnknownColumnHasNoEffect ==
    /\ call.op = "with_filters" =>
          build(Builder) =
              build(with_filters(Before,
                        [params EXCEPT !.filters = FieldEntries(params.filters)]))
    /\ (call.op = "with_condition" /\ call.arg \notin valid_columns) =>
          build(Builder) = build(Before)
    /\ ( /\ call.op = "with_date_range"
         /\ params.date_range.date_column # None
         /\ unwrap(params.date_range.date_column) \notin valid_columns ) =>
          build(Builder) = build(Before)

\* C3 witness: with_filters met a filter on email, no field of the record type,
\* before a filter on status; only the status fragment was added, numbered as
\* the first new placeholder.
C3_Witness ==
    /\ call.op = "with_filters"
    /\ Len(params.filters) = 2
    /\ params.filters[1].key = email /\ params.filters[1].value # None
    /\ params.filters[2].key = status
    /\ email \notin valid_columns
    /\ Len(conditions) = Len(call.before.conditions) + 1
    /\ Len(arguments) = Len(call.before.arguments) + 1
    /\ Len(call.before.arguments) > 0

\* the search columns of p that pass the column gate of builder b
GatedSearchColumns(b, p) ==
    IF p.search.search_columns = None THEN <<>>
    ELSE SelectSeq(unwrap(p.search.search_columns), LAMBDA c : is_column_safe(b, c))

\* C9: with_search adds no fragment and no argument when the term is absent,
\* empty or whitespace-only, when search_columns is absent or empty, or when no
\* search column passes the column gate, for both dialects.
C9_NoSearchFragment ==
    ( /\ call.op = "with_search"
      /\ \/ params.search.search = None
         \/ \A i \in DOMAIN unwrap(params.search.search) :
                is_whitespace(unwrap(params.search.search)[i])
         \/ GatedSearchColumns(Before, params) = <<>> )
    => build(Builder) = build(Before)

\* C9 witness: the SQLite builder was handed a whitespace-only term with a
\* valid search column and added nothing.
C9_Witness ==
    /\ call.op = "with_search"
    /\ dialect = "sqlite"
    /\ params.search.search = Some(blank)
    /\ GatedSearchColumns(Before, params) # <<>>
    /\ build(Builder) = build(Before)

(***************************************************************************)
(* The pagination normalizers: page_deserialize, page_size_deserialize and *)
(* QueryParamsBuilder::with_pagination                                     *)
(***************************************************************************)
DEFAULT_PAGE == 1
DEFAULT_MIN_PAGE_SIZE == 10
DEFAULT_MAX_PAGE_SIZE == 50

\* i64::clamp
clamp(x, lo, hi) == IF x < lo THEN lo ELSE IF x > hi THEN hi ELSE x

\* i64::max
max(x, y) == IF x >= y THEN x ELSE y

\* internal_utils::extract_digits_from_strings
extract_digits_from_strings(val) == SelectSeq(val, is_ascii_digit)

\* str::parse::<i64>() of the extracted digits: Some(value) or None on error
parse_i64(s) ==
    IF parses_int(s, I64_MAX, I64_MIN_MAGNITUDE)
    THEN Some(digits_to_int(strip_leading_zeros(s)))
    ELSE None

\* page_deserialize without the lower bound on the parsed number
page_deserialize_unbounded(value) ==
    IF value = None THEN DEFAULT_PAGE
    ELSE LET digit == parse_i64(extract_digits_from_strings(unwrap(value)))
         IN  IF digit = None THEN DEFAULT_PAGE ELSE unwrap(digit)

\* page_deserialize on the Option<String> it reads
page_deserialize(value) ==
    IF value = None THEN DEFAULT_PAGE
    ELSE IF trim(unwrap(value)) = <<>> \/ starts_with(trim(unwrap(value)), "-")
         THEN DEFAULT_PAGE
    ELSE LET digit == parse_i64(extract_digits_from_strings(unwrap(value)))
         IN  IF digit = None THEN DEFAULT_PAGE
             ELSE IF unwrap(digit) < DEFAULT_PAGE THEN DEFAULT_PAGE
             ELSE unwrap(digit)

\* page_size_deserialize on the Option<String> it reads
page_size_deserialize(value) ==
    IF value = None THEN DEFAULT_MIN_PAGE_SIZE
    ELSE IF trim(unwrap(value)) = <<>> \/ starts_with(trim(unwrap(value)), "-")
         THEN DEFAULT_MIN_PAGE_SIZE
    ELSE LET digit == parse_i64(extract_digits_from_strings(unwrap(value)))
         IN  IF digit = None THEN DEFAULT_MIN_PAGE_SIZE
             ELSE clamp(unwrap(digit), DEFAULT_MIN_PAGE_SIZE, DEFAULT_MAX_PAGE_SIZE)

\* internal_utils::default_page and default_page_size
default_page == DEFAULT_PAGE
default_page_size == DEFAULT_MIN_PAGE_SIZE

\* Deserialize for QueryPaginationParams: a missing key takes the serde default,
\* a present key goes through its deserialize_with function
QueryPaginationParams_deserialize(raw) ==
    [ page |-> IF ~ raw.page.present THEN default_page
               ELSE page_deserialize(raw.page.value),
      page_size |-> IF ~ raw.page_size.present THEN default_page_size
                    ELSE page_size_deserialize(raw.page_size.value) ]

\* QueryParamsBuilder::with_pagination
with_pagination(query, page, page_size) ==
    [query EXCEPT !.pagination =
        [ page |-> max(page, DEFAULT_PAGE),
          page_size |-> clamp(page_size, DEFAULT_MIN_PAGE_SIZE, DEFAULT_MAX_PAGE_SIZE) ]]

\* QueryParams::default
QueryParams_default ==
    [ pagination |-> [page |-> default_page, page_size |-> default_page_size],
      sort |-> DefaultSort,
      search |-> [search |-> None, search_columns |-> Some(<<name, description>>)],
      filters |-> <<>>,
      date_range |-> [date_column |-> Some(created_at),
                      date_after |-> None, date_before |-> None] ]

\* the characters of raw page and page_size texts, and their longest length
RawChars == {"0", "1", "5", "9", "-", " ", "a"}
MaxRawLen == 3

RawTexts == UNION { [1..n -> RawChars] : n \in 0..MaxRawLen }

\* raw values of the other key while one key ranges over RawTexts
Missing == [present |-> FALSE, value |-> None]
Present(o) == [present |-> TRUE, value |-> o]
\* twenty nines: more than an i64 holds
Overflowing == [i \in 1..20 |-> "9"]
FewRaw == { Missing, Present(None), Present(Some(<<"9","9">>)),
            Present(Some(<<"-","3">>)), Present(Some(Overflowing)) }

RawPaginations ==
    { [page |-> Present(Some(t)), page_size |-> o] : t \in RawTexts, o \in FewRaw }
    \cup { [page |-> o, page_size |-> Present(Some(t))] : t \in RawTexts, o \in FewRaw }
    \cup { [page |-> o, page_size |-> o2] : o \in FewRaw, o2 \in FewRaw }

\* the number of with_pagination calls on one QueryParamsBuilder
MaxPaginationCalls == 2

\* integers handed to with_pagination
PageInts == { -1000, -1, 0, 1, 2, 9, 10, 11, 49, 50, 51, 1000 }

InitNormalizer ==
    /\ protection = ColumnProtection_default
    /\ BuilderIdle
    /\ params = QueryParams_default
    /\ req = IdleReq
    /\ norm = [op |-> "none", n |-> 0]
    /\ call = NoCall

\* a QueryParams is deserialized from flattened key/value input
DeserializePagination ==
    /\ norm.op = "none"
    /\ \E raw \in RawPaginations :
          /\ params' = [QueryParams_default EXCEPT
                           !.pagination = QueryPaginationParams_deserialize(raw)]
          /\ norm' = [op |-> "deserialize", n |-> 0, raw |-> raw]
    /\ UNCHANGED <<protection, dialect, valid_columns, protection_enabled,
                   conditions, arguments, req, call>>

\* a QueryParams is built with QueryParamsBuilder::with_pagination
BuildWithPagination ==
    /\ norm.op # "deserialize"
    /\ norm.n < MaxPaginationCalls
    /\ \E page \in PageInts, page_size \in PageInts :
          /\ params' = with_pagination(params, page, page_size)
          /\ norm' = [op |-> "with_pagination", n |-> norm.n + 1,
                      page |-> page, page_size |-> page_size]
    /\ UNCHANGED <<protection, dialect, valid_columns, protection_enabled,
                   conditions, arguments, req, call>>

NextNormalizer == DeserializePagination \/ BuildWithPagination

SpecNormalizer == InitNormalizer /\ [][NextNormalizer]_vars

\* what the claim calls a raw page that is empty, non-numeric, zero or negative
HasNoDigit(t) == \A i \in DOMAIN t : ~ is_ascii_digit(t[i])
IsZeroText(t) == trim(t) # <<>> /\ \A i \in DOMAIN trim(t) : trim(t)[i] = "0"
IsNegativeText(t) ==
    /\ Len(trim(t)) > 1 /\ Head(trim(t)) = "-"
    /\ \A i \in 2..Len(trim(t)) : is_ascii_digit(trim(t)[i])

DegeneratePage(raw) ==
    \/ ~ raw.present
    \/ raw.value = None
    \/ raw.value # None
         /\ \/ HasNoDigit(unwrap(raw.value))
            \/ IsZeroText(unwrap(raw.value))
            \/ IsNegativeText(unwrap(raw.value))

\* C8: a page that is missing, empty, without digits, zero or negative
\* normalizes to 1, every normalized page is at least 1 and every normalized
\* page_size lies in [DEFAULT_MIN_PAGE_SIZE, DEFAULT_MAX_PAGE_SIZE], through
\* the deserializers and through with_pagination.
C8_PaginationNormalized ==
    /\ params.pagination.page >= 1
    /\ params.pagination.page_size >= DEFAULT_MIN_PAGE_SIZE
    /\ params.pagination.page_size <= DEFAULT_MAX_PAGE_SIZE
    /\ (norm.op = "deserialize" /\ DegeneratePage(norm.raw.page))
          => params.pagination.page = 1
    /\ (norm.op = "with_pagination" /\ norm.page <= 0)
          => params.pagination.page = 1

\* C8 witness: the raw page "-1 " and the raw page_size "99" were deserialized
\* into page 1 and the maximum page size.
C8_Witness ==
    /\ norm.op = "deserialize"
    /\ norm.raw.page = Present(Some(<<"-", "1", " ">>))
    /\ norm.raw.page_size = Present(Some(<<"9", "9">>))
    /\ params.pagination = [page |-> 1, page_size |-> DEFAULT_MAX_PAGE_SIZE]

(***************************************************************************)
(* Deserialization of FlatQueryParams and its conversion into QueryParams. *)
(* The flattened input is a list of entries in arrival order; a value is   *)
(* missing, null, a string, or something that is not a string.  Every      *)
(* group of FlatQueryParams is a flattened Option: serde reads the group   *)
(* from the entries left by the groups before it and turns a failure of    *)
(* the group into None.                                                    *)
(***************************************************************************)
DEFAULT_SEPARATOR == <<" ">>
DEFAULT_MAX_FIELD_LENGTH == 100
DEFAULT_SEARCH_COLUMN_NAME_SEPARATOR_SYMBOL == ","

Ok(v) == [ok |-> v]
Err(e) == [err |-> e]
is_ok(result) == "ok" \in DOMAIN result

\* a present value that is no string and no null (a number, a list, a map)
NotAString == [present |-> TRUE, value |-> None, string |-> FALSE]

\* Option::<String>::deserialize of a present value
Option_String_deserialize(w) ==
    IF "string" \in DOMAIN w THEN Err("invalid type") ELSE Ok(w.value)

\* str::split_whitespace: the maximal runs without whitespace
RECURSIVE split_whitespace(_)
split_whitespace(s) ==
    LET t == trim_start(s)
    IN  IF t = <<>> THEN <<>>
        ELSE LET stop == { i \in DOMAIN t : is_whitespace(t[i]) }
                 n == IF stop = {} THEN Len(t) + 1
                      ELSE CHOOSE i \in stop : \A j \in stop : i <= j
             IN  <<SubSeq(t, 1, n - 1)>> \o split_whitespace(SubSeq(t, n, Len(t)))

\* Iterator::take(n) on the characters of a text
take(s, n) == SubSeq(s, 1, IF Len(s) < n THEN Len(s) ELSE n)

\* search_deserialize on the Option<String> it reads
search_deserialize(value) ==
    IF value = None THEN None
    ELSE IF trim(unwrap(value)) = <<>> THEN None
    ELSE LET kept == SelectSeq(trim(unwrap(value)),
                         LAMBDA c : is_ascii_alphanumeric(c) \/ c = " " \/ c = "-")
             normalized_value ==
                 take(join(split_whitespace(kept), DEFAULT_SEPARATOR),
                      DEFAULT_MAX_FIELD_LENGTH)
         IN  IF normalized_value = <<>> THEN None ELSE Some(normalized_value)

\* search_columns_deserialize on the Option<String> it reads
search_columns_deserialize(value) ==
    IF value = None THEN None
    ELSE LET parts == split(unwrap(value), DEFAULT_SEARCH_COLUMN_NAME_SEPARATOR_SYMBOL)
             trimmed == [i \in DOMAIN parts |-> trim(parts[i])]
         IN  Some(SelectSeq(trimmed, LAMBDA t : t # <<>>))

\* Deserialize for Option<DateTime<Utc>>: null is None, an RFC 3339 text is
\* the instant it writes, anything else an error
Option_DateTime_deserialize(w) ==
    IF "string" \in DOMAIN w THEN Err("invalid type")
    ELSE IF w.value = None THEN Ok(None)
    ELSE IF is_rfc3339(unwrap(w.value)) THEN Ok(w.value)
    ELSE Err("invalid datetime")

\* internal_utils::default_search_columns and default_date_range_column
default_search_columns == Some(<<name, description>>)
default_date_range_column == Some(created_at)

\* the key names of the groups, and the order in which the entries arrive
WireKeys == << "page", "page_size", "search", "search_columns",
               "date_after", "date_before", "date_column", "status" >>

\* the text of each key
KeyText ==
    [ page |-> <<"p","a","g","e">>,
      page_size |-> <<"p","a","g","e","_","s","i","z","e">>,
      search |-> <<"s","e","a","r","c","h">>,
      search_columns |-> <<"s","e","a","r","c","h","_","c","o","l","u","m","n","s">>,
      date_after |-> <<"d","a","t","e","_","a","f","t","e","r">>,
      date_before |-> <<"d","a","t","e","_","b","e","f","o","r","e">>,
      date_column |-> <<"d","a","t","e","_","c","o","l","u","m","n">>,
      status |-> <<"s","t","a","t","u","s">> ]

\* the value of one field of a group: the serde default (or the missing-field
\* error) when the key is missing, else what its deserializer makes of it
field(wire, key, has_default, default, Deserialize(_)) ==
    IF ~ wire[key].present
    THEN IF has_default THEN Ok(default) ELSE Err("missing field")
    ELSE Deserialize(wire[key])

with_deserializer(w, F(_)) ==
    LET value == Option_String_deserialize(w)
    IN  IF is_ok(value) THEN Ok(F(value.ok)) ELSE value

\* the derived Deserialize of a struct read from a flattened map: the entries
\* named by its fields are taken in arrival order up to the first that fails;
\* a missing field without default fails after all entries were seen
\* (results maps each field of the struct to its Ok or Err)
derive_struct(wire, taken, fields, results) ==
    LET mine == SelectSeq(WireKeys,
                    LAMBDA k : k \in fields /\ wire[k].present /\ k \notin taken)
        failing == { i \in DOMAIN mine : ~ is_ok(results[mine[i]]) }
        first == CHOOSE i \in failing : \A j \in failing : i <= j
    IN  IF failing # {}
        THEN [out |-> results[mine[first]],
              taken |-> taken \cup { mine[i] : i \in 1..first }]
        ELSE IF \E k \in fields : ~ is_ok(results[k])
        THEN [out |-> Err("missing field"), taken |-> taken \cup Range(mine)]
        ELSE [out |-> Ok([k \in fields |-> results[k].ok]),
              taken |-> taken \cup Range(mine)]

QueryPaginationParams_derive(wire, taken) ==
    derive_struct(wire, taken, {"page", "page_size"},
        [ page |-> field(wire, "page", TRUE, default_page,
                         LAMBDA w : with_deserializer(w, page_deserialize)),
          page_size |-> field(wire, "page_size", TRUE, default_page_size,
                         LAMBDA w : with_deserializer(w, page_size_deserialize)) ])

QuerySearchParams_derive(wire, taken) ==
    derive_struct(wire, taken, {"search", "search_columns"},
        [ search |-> field(wire, "search", FALSE, None,
                         LAMBDA w : with_deserializer(w, search_deserialize)),
          search_columns |-> field(wire, "search_columns", TRUE, default_search_columns,
                         LAMBDA w : with_deserializer(w, search_columns_deserialize)) ])

QueryDateRangeParams_derive(wire, taken) ==
    derive_struct(wire, taken, {"date_after", "date_before", "date_column"},
        [ date_after |-> field(wire, "date_after", TRUE, None, Option_DateTime_deserialize),
          date_before |-> field(wire, "date_before", TRUE, None, Option_DateTime_deserialize),
          date_column |-> field(wire, "date_column", TRUE, default_date_range_column,
                                Option_String_deserialize) ])

\* Deserialize for HashMap<String, Option<String>> from the entries no group
\* has taken
filters_derive(wire, taken) ==
    LET left == SelectSeq(WireKeys, LAMBDA k : wire[k].present /\ k \notin taken)
        values == [i \in DOMAIN left |-> Option_String_deserialize(wire[left[i]])]
    IN  IF \E i \in DOMAIN left : ~ is_ok(values[i])
        THEN Err("invalid type")
        ELSE Ok([i \in DOMAIN left |-> [key |-> KeyText[left[i]], value |-> values[i].ok]])

\* a flattened Option that keeps the error of its group
flatten_strict(result) ==
    IF is_ok(result) THEN Ok(Some(result.ok)) ELSE result

\* #[serde(flatten)] on an Option field: Some of the group, None if it failed
flatten_option(result) ==
    IF is_ok(result) THEN Ok(Some(result.ok)) ELSE Ok(None)

\* Deserialize for FlatQueryParams (QuerySortParams has only defaulted fields
\* and none of its keys is supplied)
FlatQueryParams_deserialize(wire) ==
    LET pagination == QueryPaginationParams_derive(wire, {})
        search == QuerySearchParams_derive(wire, pagination.taken)
        date_range == QueryDateRangeParams_derive(wire, search.taken)
        groups == [ pagination |-> flatten_option(pagination.out),
                    sort |-> flatten_option(Ok(DefaultSort)),
                    search |-> flatten_option(search.out),
                    date_range |-> flatten_option(date_range.out),
                    filters |-> flatten_option(filters_derive(wire, date_range.taken)) ]
    IN  IF \E g \in DOMAIN groups : ~ is_ok(groups[g])
        THEN Err("group")
        ELSE Ok([g \in DOMAIN groups |-> groups[g].ok])

\* Option::unwrap_or_default
unwrap_or_default(o, default) == IF o = None THEN default ELSE unwrap(o)

\* From<FlatQueryParams> for QueryParams
QueryParams_from(flat) ==
    [ pagination |-> unwrap_or_default(flat.pagination, QueryParams_default.pagination),
      sort |-> unwrap_or_default(flat.sort, QueryParams_default.sort),
      search |-> unwrap_or_default(flat.search, QueryParams_default.search),
      date_range |-> unwrap_or_default(flat.date_range, QueryParams_default.date_range),
      filters |-> unwrap_or_default(flat.filters, <<>>) ]

(***************************************************************************)
(* Specification of the input normalization: one flattened input is        *)
(* deserialized into a FlatQueryParams, which is converted into the        *)
(* QueryParams of the request.                                             *)
(***************************************************************************)
WirePool ==
    [ page : { Missing,
              Present(Some(<<"2">>)),
              Present(Some(<<"p","a","g","e","5">>)),
              Present(Some(<<"-","1">>)),
              NotAString },
      page_size : { Missing,
                   Present(Some(<<"9","9","9">>)),
                   Present(None) },
      search : { Missing,
                Present(Some(<<"a"," "," ","b">>)),
                Present(Some(<<";","-","-">>)),
                NotAString },
      search_columns : { Missing,
                        Present(Some(<<"n","a","m","e",","," ",",","e","m","a","i","l">>)),
                        NotAString },
      date_after : { Missing,
                    Present(Some(<<"2","0","2","4","-","0","1","-","0","1","T","0","0",":","0","0",":","0","0","Z">>)),
                    Present(Some(<<"y","e","s","t","e","r","d","a","y">>)),
                    NotAString },
      date_before : { Missing,
                     Present(Some(<<"2","0","2","4","-","1","2","-","3","1","T","2","3",":","5","9",":","5","9","+","0","2",":","0","0">>)),
                     Present(Some(<<"2","0","2","4","-","1","3","-","0","1">>)) },
      date_column : { Missing,
                     Present(Some(<<"u","p","d","a","t","e","d","_","a","t">>)) },
      status : { Missing,
                Present(Some(<<"a","c","t","i","v","e">>)),
                Present(None),
                NotAString } ]

InitWire ==
    /\ protection = ColumnProtection_default
    /\ BuilderIdle
    /\ params = QueryParams_default
    /\ req = IdleReq
    /\ call = NoCall
    /\ \E wire \in WirePool : norm = [op |-> "wire", raw |-> wire]

\* the extractor of the web framework deserializes the FlatQueryParams
DeserializeFlat ==
    /\ norm.op = "wire"
    /\ norm' = [op |-> "deserialized", raw |-> norm.raw,
                out |-> FlatQueryParams_deserialize(norm.raw)]
    /\ UNCHANGED <<protection, dialect, valid_columns, protection_enabled,
                   conditions, arguments, params, req, call>>

\* the handler converts it: QueryParams::from(flat)
IntoQueryParams ==
    /\ norm.op = "deserialized"
    /\ is_ok(norm.out)
    /\ params' = QueryParams_from(norm.out.ok)
    /\ norm' = [norm EXCEPT !.op = "converted"]
    /\ UNCHANGED <<protection, dialect, valid_columns, protection_enabled,
                   conditions, arguments, req, call>>

NextWire == DeserializeFlat \/ IntoQueryParams

SpecWire == InitWire /\ [][NextWire]_vars

\* a supplied value that its deserializer rejects
Malformed(wire) ==
    \/ \E k \in DOMAIN wire : "string" \in DOMAIN wire[k]
    \/ \E k \in {"date_after", "date_before"} :
          /\ wire[k].present /\ wire[k].value # None
          /\ ~ is_rfc3339(unwrap(wire[k].value))

\* C17: whatever is supplied for page, page_size, search, search_columns,
\* date_after, date_before or a filter key, deserialization yields a
\* FlatQueryParams and never an error, and the QueryParams made of it holds
\* for every parameter the normalized value or a default: the page is at
\* least 1, the page size within its range, the search term sanitized, the
\* dates well-formed.
C17_MalformedInputNeverFatal ==
    /\ norm.op \in {"deserialized", "converted"} => is_ok(norm.out)
    /\ norm.op = "converted" =>
          /\ params.pagination.page >= DEFAULT_PAGE
          /\ params.pagination.page_size >= DEFAULT_MIN_PAGE_SIZE
          /\ params.pagination.page_size <= DEFAULT_MAX_PAGE_SIZE
          /\ params.search.search # None =>
                /\ unwrap(params.search.search) # <<>>
                /\ \A i \in DOMAIN unwrap(params.search.search) :
                      LET c == unwrap(params.search.search)[i]
                      IN  is_ascii_alphanumeric(c) \/ c = " " \/ c = "-"
          /\ \A d \in {params.date_range.date_after, params.date_range.date_before} :
                d # None => is_rfc3339(unwrap(d))
          /\ \A i \in DOMAIN params.filters : "string" \notin DOMAIN params.filters[i]

\* C17 witness: an input with a page that is no string, a search term of
\* punctuation and a date_after that is no timestamp has been converted into
\* a QueryParams holding the defaults.
C17_Witness ==
    /\ norm.op = "converted"
    /\ norm.raw.page = NotAString
    /\ norm.raw.search = Present(Some(<<";","-","-">>))
    /\ norm.raw.date_after = Present(Some(<<"y","e","s","t","e","r","d","a","y">>))
    /\ params.pagination = QueryParams_default.pagination
    /\ params.date_range = QueryParams_default.date_range

(***************************************************************************)
(* The pagination orchestrator: PaginatedQueryBuilder                      *)
(***************************************************************************)
\* examples::build_query_with_safe_defaults for a record type with the given
\* fields
build_query_with_safe_defaults(p, fields) ==
    build(with_date_range(
              with_filters(
                  with_search(QueryBuilder_new("postgres", fields), p), p), p))

\* examples::build_query_with_disabled_protection
build_query_with_disabled_protection(p, fields) ==
    build(disable_protection(
              with_date_range(
                  with_filters(
                      with_search(QueryBuilder_new("postgres", fields), p), p), p)))

\* the call (self.build_query_fn)(&self.params)
build_query(fn, p, fields) ==
    IF fn = "build_query_with_safe_defaults"
    THEN build_query_with_safe_defaults(p, fields)
    ELSE build_query_with_disabled_protection(p, fields)

\* iteration over &params.filters by the n-th invocation of the closure: the
\* map is not modified between the invocations, so both walk its table in the
\* same order
HashMap_iter_unstable(filters, invocation) ==
    IF invocation = 2
    THEN [i \in DOMAIN filters |-> filters[Len(filters) + 1 - i]]
    ELSE filters

HashMap_iter(filters, invocation) == filters

\* the n-th call (self.build_query_fn)(&self.params) of fetch_paginated
invoke(fn, p, fields, invocation) ==
    build_query(fn, [p EXCEPT !.filters = HashMap_iter(@, invocation)], fields)

\* PaginatedQueryBuilder::build_base_query
build_base_query(sql) ==
    << Lit("WITH base_query AS ("), [k |-> "raw", v |-> sql], Lit(")") >>

\* build_where_clause that drops the last condition
build_where_clause_short(conds) ==
    IF Len(conds) <= 1 THEN <<>>
    ELSE <<Lit(" WHERE ")>> \o join_tokens(SubSeq(conds, 1, Len(conds) - 1), " AND ")

\* PaginatedQueryBuilder::build_where_clause
build_where_clause(conds) ==
    IF conds = <<>> THEN <<>>
    ELSE <<Lit(" WHERE ")>> \o join_tokens(conds, " AND ")

\* PaginatedQueryBuilder::build_order_clause
build_order_clause(p) ==
    LET order == IF p.sort.sort_direction = "Ascending" THEN "ASC" ELSE "DESC"
        column_name == quote_identifier(p.sort.sort_column)
    IN  << Lit(" ORDER BY "), Ident(column_name), Lit(" "), Lit(order) >>

\* PaginatedQueryBuilder::build_limit_offset_clause
build_limit_offset_clause(p) ==
    LET offset == (p.pagination.page - 1) * p.pagination.page_size
    IN  << Lit(" LIMIT "), [k |-> "number", v |-> p.pagination.page_size],
           Lit(" OFFSET "), [k |-> "number", v |-> offset] >>

\* the COUNT statement of fetch_paginated
count_sql(sql, built) ==
    [ kind |-> "COUNT",
      sql |-> build_base_query(sql) \o <<Lit(" SELECT COUNT(*) FROM base_query")>>
                  \o build_where_clause(built[1][1]),
      arguments |-> built[2][2] ]

\* the PAGE statement of fetch_paginated
page_sql(sql, p, built) ==
    [ kind |-> "PAGE",
      sql |-> build_base_query(sql) \o <<Lit(" SELECT * FROM base_query")>>
                  \o build_where_clause(built[1][1])
                  \o build_order_clause(p) \o build_limit_offset_clause(p),
      arguments |-> built[1][2] ]

\* a statement made of the results of the closure calls that precede it: the
\* first call gives the conditions of both statements and the arguments of the
\* PAGE statement, the second call the arguments of the COUNT statement
assemble(kind, sql, p, built) ==
    IF kind = "COUNT" THEN count_sql(sql, built) ELSE page_sql(sql, p, built)

\* the statement of the given kind that fetch_paginated sends
statement_of(kind, fn, sql, p, fields) ==
    assemble(kind, sql, p,
             [n \in 1..(IF kind = "COUNT" THEN 2 ELSE 1) |-> invoke(fn, p, fields, n)])

\* the PAGE statement fetch_paginated sends after the COUNT statement returned
page_statement(fn, sql, p, fields) == statement_of("PAGE", fn, sql, p, fields)

\* available_pages rounded down
available_pages_floor(count, page_size) == count \div page_size

\* available_pages of fetch_paginated
available_pages(count, page_size) ==
    IF count = 0 THEN 0 ELSE (count + page_size - 1) \div page_size

select_users == <<"S","E","L","E","C","T"," ","*"," ","F","R","O","M"," ","u","s","e","r","s">>

\* sort parameters: the default, fields of the record type, a column that is no
\* field, a field the validator blocks and a system table
SortPool ==
    { DefaultSort,
      [sort_column |-> name, sort_direction |-> "Ascending"],
      [sort_column |-> password, sort_direction |-> "Descending"],
      [sort_column |-> oid, sort_direction |-> "Ascending"],
      [sort_column |-> pg_class, sort_direction |-> "Descending"] }

PaginationPool ==
    { [page |-> 1, page_size |-> DEFAULT_MIN_PAGE_SIZE], [page |-> 3, page_size |-> 25],
      [page |-> 2, page_size |-> DEFAULT_MAX_PAGE_SIZE] }

\* the single filter status=active on otherwise default parameters
StatusActiveParams ==
    [QueryParams_default EXCEPT !.filters = << [key |-> status, value |-> Some(active)] >>]

FetchParamsPool ==
    { [p EXCEPT !.pagination = pg] :
        p \in {StatusActiveParams} \cup
              { q \in ParamsPool : q.search.search # None /\ q.filters # <<>> },
        pg \in PaginationPool }
    \cup { [StatusActiveParams EXCEPT !.sort = srt] : srt \in SortPool }

\* results of the COUNT statement and the largest number of rows of a page
CountResults == { 0, 1, 9, 10, 11, 24, 25, 26, 49, 50, 51, 101 }
MaxRows == 2

\* errors the backend reports for a statement
BackendErrors == { "PoolTimedOut", "Database" }

\* the statement fetch_paginated sends first: `if self.totals_count_enabled`
first_statement_page(enabled) == "PAGE"

first_statement(enabled) == IF enabled THEN "COUNT" ELSE "PAGE"

\* (total, total_pages, pagination) computed even when totals are disabled
totals_always(enabled, count, pagination_arguments) ==
    [ total |-> Some(count),
      total_pages |-> Some(available_pages(count, pagination_arguments.page_size)),
      pagination |-> Some(pagination_arguments) ]

\* the tuple (total, total_pages, pagination) of fetch_paginated
totals(enabled, count, pagination_arguments) ==
    IF enabled
    THEN [ total |-> Some(count),
           total_pages |-> Some(available_pages(count, pagination_arguments.page_size)),
           pagination |-> Some(pagination_arguments) ]
    ELSE [ total |-> None, total_pages |-> None, pagination |-> None ]

\* an error replaced by another on its way to the caller
propagate_wrapped(error) == [err |-> <<"wrapped", error>>]

\* the ? operator on a Result<_, sqlx::Error> inside a function returning
\* Result<_, sqlx::Error>: the error is returned as it is
propagate(error) == [err |-> error]

\* Ok(PaginatedResponse { records, pagination, total, total_pages })
response(records, t) ==
    [ ok |-> [ records |-> records, pagination |-> t.pagination,
               total |-> t.total, total_pages |-> t.total_pages ] ]

NewRequest ==
    [ pc |-> "new",
      query |-> select_users,
      totals_count_enabled |-> TRUE,
      build_query_fn |-> "build_query_with_safe_defaults",
      built |-> <<>>,
      issued |-> <<>>,
      returned |-> <<>>,
      totals |-> None,
      result |-> None ]

\* PaginatedQueryBuilder::new
InitFetch ==
    /\ protection = ColumnProtection_default
    /\ dialect = "postgres"
    /\ valid_columns = RecordFields
    /\ protection_enabled = TRUE
    /\ conditions = <<>>
    /\ arguments = <<>>
    /\ params = QueryParams_default
    /\ req = NewRequest
    /\ norm = IdleNorm
    /\ call = NoCall

FetchFrame ==
    UNCHANGED <<protection, dialect, valid_columns, protection_enabled,
                conditions, arguments, norm, call>>

\* PaginatedQueryBuilder::with_params; a later call replaces the whole value, so
\* one call reaches every value the field can hold
WithParams ==
    /\ req.pc = "new"
    /\ params = QueryParams_default
    /\ params' \in FetchParamsPool
    /\ UNCHANGED req
    /\ FetchFrame

\* PaginatedQueryBuilder::with_query_builder
WithQueryBuilder ==
    /\ req.pc = "new"
    /\ req.build_query_fn = "build_query_with_safe_defaults"
    /\ req' = [req EXCEPT !.build_query_fn = "build_query_with_disabled_protection"]
    /\ UNCHANGED params
    /\ FetchFrame

\* PaginatedQueryBuilder::disable_totals_count
DisableTotalsCount ==
    /\ req.pc = "new"
    /\ req.totals_count_enabled
    /\ req' = [req EXCEPT !.totals_count_enabled = FALSE]
    /\ UNCHANGED params
    /\ FetchFrame

\* the results of the calls of the closure made before the first await
closure_calls(r, p, fields) ==
    [ n \in 1..(IF r.totals_count_enabled THEN 2 ELSE 1) |->
        invoke(r.build_query_fn, p, fields, n) ]

\* fetch_paginated up to its first await: the COUNT statement is sent when
\* totals are enabled; otherwise the tuple of totals is (None, None, None) and
\* the PAGE statement is sent
FetchPaginated ==
    /\ req.pc = "new"
    /\ \E kind \in {first_statement(req.totals_count_enabled)} :
          req' = [req EXCEPT
                !.pc = IF kind = "COUNT" THEN "count" ELSE "page",
                !.built = closure_calls(req, params, valid_columns),
                !.totals = IF kind = "COUNT" THEN @
                           ELSE Some(totals(req.totals_count_enabled, 0,
                                            params.pagination)),
                !.issued = Append(@, statement_of(kind, req.build_query_fn, req.query,
                                                  params, valid_columns))]
    /\ UNCHANGED params
    /\ FetchFrame

\* the COUNT statement returns: total and total_pages are computed and the PAGE
\* statement is sent
CountReturns ==
    /\ req.pc = "count"
    /\ \E count \in CountResults :
          req' = [req EXCEPT
                !.pc = "page",
                !.returned = Append(@, [kind |-> "COUNT", ok |-> TRUE, value |-> count]),
                !.totals = Some(totals(req.totals_count_enabled, count, params.pagination)),
                !.issued = Append(@, page_statement(req.build_query_fn, req.query,
                                                    params, valid_columns))]
    /\ UNCHANGED params
    /\ FetchFrame

\* the COUNT statement fails: the error is returned by the ? operator
CountFails ==
    /\ req.pc = "count"
    /\ \E error \in BackendErrors :
          req' = [req EXCEPT
                !.pc = "done",
                !.returned = Append(@, [kind |-> "COUNT", ok |-> FALSE, value |-> error]),
                !.result = Some(propagate(error))]
    /\ UNCHANGED params
    /\ FetchFrame

\* the PAGE statement returns its rows: the response is assembled
PageReturns ==
    /\ req.pc = "page"
    /\ \E rows \in 0..MaxRows :
          req' = [req EXCEPT
                !.pc = "done",
                !.returned = Append(@, [kind |-> "PAGE", ok |-> TRUE, value |-> rows]),
                !.result = Some(response(rows, unwrap(req.totals)))]
    /\ UNCHANGED params
    /\ FetchFrame

\* the PAGE statement fails: the error is returned by the ? operator
PageFails ==
    /\ req.pc = "page"
    /\ \E error \in BackendErrors :
          req' = [req EXCEPT
                !.pc = "done",
                !.returned = Append(@, [kind |-> "PAGE", ok |-> FALSE, value |-> error]),
                !.result = Some(propagate(error))]
    /\ UNCHANGED params
    /\ FetchFrame

NextFetch ==
    \/ WithParams \/ WithQueryBuilder \/ DisableTotalsCount \/ FetchPaginated
    \/ CountReturns \/ CountFails \/ PageReturns \/ PageFails

SpecFetch == InitFetch /\ [][NextFetch]_vars

(***************************************************************************)
(* Claims about the SQL text fetch_paginated sends                         *)
(***************************************************************************)
\* the identifier tokens of a statement
StatementIdents(statement) ==
    { statement.sql[i] : i \in { j \in DOMAIN statement.sql : statement.sql[j].k = "ident" } }

\* C2: every column identifier in the SQL text fetch_paginated sends, the
\* ORDER BY column included, names a field of the record type that is_safe
\* accepts, when the closure is the default one with protection enabled.
C2_EveryIdentifierValidated ==
    req.build_query_fn = "build_query_with_safe_defaults" =>
        \A n \in DOMAIN req.issued :
            \A token \in StatementIdents(req.issued[n]) :
                /\ NamedColumns(token) # {}
                /\ \A c \in NamedColumns(token) :
                      c \in valid_columns /\ is_safe(ColumnProtection_default, c)

\* position of the first token equal to the given literal, 0 when absent
FirstLit(text, lit) ==
    LET at == { i \in DOMAIN text : text[i] = Lit(lit) }
    IN  IF at = {} THEN 0 ELSE CHOOSE i \in at : \A j \in at : i <= j

\* the WHERE text of a statement: from its WHERE keyword up to ORDER BY, or to
\* the end of the text when there is no ORDER BY
WhereText(statement) ==
    LET from == FirstLit(statement.sql, " WHERE ")
        order == FirstLit(statement.sql, " ORDER BY ")
        to == IF order = 0 THEN Len(statement.sql) ELSE order - 1
    IN  IF from = 0 THEN <<>> ELSE SubSeq(statement.sql, from, to)

\* the positions of the placeholders of a text, as a set
PlaceholderAt(text) == { i \in DOMAIN text : text[i].k = "placeholder" }

\* the value the placeholder at position i of a WHERE text stands for, read from
\* the fragment around it and the request parameters
ExpectedArgument(text, i, p) ==
    IF text[i - 1] = Lit(") LIKE LOWER(")
    THEN [ty |-> "string", v |-> <<"%">> \o unwrap(p.search.search) \o <<"%">>]
    ELSE IF text[i - 1] = Lit(" >= ")
    THEN [ty |-> "datetime", v |-> unwrap(p.date_range.date_after)]
    ELSE IF text[i - 1] = Lit(" <= ")
    THEN [ty |-> "datetime", v |-> unwrap(p.date_range.date_before)]
    ELSE LET entry == CHOOSE n \in DOMAIN p.filters :
                          /\ text[i - 2] = Ident(wrap_quotes(p.filters[n].key))
                          /\ p.filters[n].value # None
         IN  [ty |-> "string", v |-> unwrap(p.filters[entry].value)]

\* the arguments match the placeholders of the WHERE text in number and order,
\* and each is the value of the fragment that uses it
ArgumentsMatch(text, args, p) ==
    /\ { text[i].v[2] : i \in PlaceholderAt(text) } = 1..Len(args)
    /\ \A i, j \in PlaceholderAt(text) : i <= j => text[i].v[2] <= text[j].v[2]
    /\ \A i \in PlaceholderAt(text) : args[text[i].v[2]] = ExpectedArgument(text, i, p)

CountStatements == SelectSeq(req.issued, LAMBDA st : st.kind = "COUNT")
PageStatements == SelectSeq(req.issued, LAMBDA st : st.kind = "PAGE")

\* the one equality condition on status bound to "active"
StatusActiveWhere ==
    << Lit(" WHERE "), Ident(wrap_quotes(status)), Lit(" = "),
       Placeholder(<<"$", 1>>), Cast("") >>

\* C10: the COUNT and the PAGE statement of one request carry the same WHERE
\* text, the arguments of each match its placeholders in number and order, and
\* for the base query "SELECT * FROM users" with the filter status=active both
\* carry exactly one equality condition, bound to "active".
C10_CountAndPageShareWhere ==
    /\ \A n \in DOMAIN req.issued :
          ArgumentsMatch(WhereText(req.issued[n]), req.issued[n].arguments, params)
    /\ (CountStatements # <<>> /\ PageStatements # <<>>) =>
          /\ WhereText(CountStatements[1]) = WhereText(PageStatements[1])
          /\ CountStatements[1].arguments = PageStatements[1].arguments
    /\ (params.filters = StatusActiveParams.filters /\ params.search.search = None
            /\ params.date_range.date_after = None
            /\ params.date_range.date_before = None /\ req.query = select_users) =>
          \A n \in DOMAIN req.issued :
              /\ WhereText(req.issued[n]) = StatusActiveWhere
              /\ req.issued[n].arguments = << [ty |-> "string", v |-> active] >>

\* C10 witness: a request with search, filter and date conditions has sent both
\* statements, with at least two arguments each.
C10_Witness ==
    /\ CountStatements # <<>> /\ PageStatements # <<>>
    /\ Len(PageStatements[1].arguments) >= 2
    /\ WhereText(CountStatements[1]) # <<>>
    /\ params.search.search # None

\* C10 second case reached: the status=active request has sent both statements.
C10_StatusActiveReached ==
    /\ params = StatusActiveParams
    /\ CountStatements # <<>> /\ PageStatements # <<>>

CeilDiv(total, page_size) ==
    CHOOSE n \in 1..total : (n - 1) * page_size < total /\ total <= n * page_size

\* the value the COUNT statement returned
CountValue == req.returned[1].value

IsOk(result) == result # None /\ "ok" \in DOMAIN unwrap(result)

\* C12: with totals enabled, total is the COUNT result, total_pages is 0 for
\* total 0 and the ceiling of total / page_size otherwise, so that
\* (total_pages - 1) * page_size < total <= total_pages * page_size for
\* total > 0; the response carries both.
C12_TotalPagesIsCeiling ==
    (req.totals_count_enabled /\ req.totals # None) =>
        LET t == unwrap(req.totals)
            page_size == params.pagination.page_size
        IN  /\ t.total = Some(CountValue)
            /\ CountValue = 0 => t.total_pages = Some(0)
            /\ CountValue > 0 =>
                  /\ t.total_pages = Some(CeilDiv(CountValue, page_size))
                  /\ (unwrap(t.total_pages) - 1) * page_size < CountValue
                  /\ CountValue <= unwrap(t.total_pages) * page_size
            /\ IsOk(req.result) =>
                  /\ unwrap(req.result).ok.total = t.total
                  /\ unwrap(req.result).ok.total_pages = t.total_pages

\* C12 witness: a response whose total is no multiple of the page size, and more
\* than one page.
C12_Witness ==
    /\ IsOk(req.result)
    /\ req.totals_count_enabled
    /\ CountValue = 51
    /\ params.pagination.page_size = 25
    /\ unwrap(req.result).ok.total_pages = Some(3)

\* C13: after disable_totals_count no COUNT statement is sent, exactly the PAGE
\* statement is, and a successful response carries the rows of the page with
\* total and total_pages absent.
C13_DisabledTotalsSkipCount ==
    ~ req.totals_count_enabled =>
        /\ CountStatements = <<>>
        /\ req.pc \in {"page", "done"} =>
              Len(req.issued) = 1 /\ Len(PageStatements) = 1
        /\ IsOk(req.result) =>
              /\ unwrap(req.result).ok.records = req.returned[1].value
              /\ unwrap(req.result).ok.total = None
              /\ unwrap(req.result).ok.total_pages = None

\* C13 witness: totals were disabled and the request returned a page of rows.
C13_Witness ==
    /\ ~ req.totals_count_enabled
    /\ IsOk(req.result)
    /\ unwrap(req.result).ok.records = MaxRows
    /\ params.pagination.page = 3

\* C14 as claimed: every successful response echoes the pagination parameters
\* of the request, with totals enabled and with totals disabled.
C14_ResponseEchoesPagination ==
    IsOk(req.result) => unwrap(req.result).ok.pagination = Some(params.pagination)

\* C15: each statement is sent at most once; a failed statement is the last
\* one, nothing is sent after it, and the caller gets its error as it was
\* reported and no response; a failed COUNT means no PAGE statement.
C15_FailureAbortsRequest ==
    /\ Len(CountStatements) <= 1
    /\ Len(PageStatements) <= 1
    /\ \A n \in DOMAIN req.returned :
          ~ req.returned[n].ok =>
              /\ n = Len(req.returned)
              /\ Len(req.issued) = n
              /\ req.pc = "done"
              /\ req.result = Some([err |-> req.returned[n].value])
              /\ req.returned[n].kind = "COUNT" => PageStatements = <<>>
    /\ IsOk(req.result) => \A n \in DOMAIN req.returned : req.returned[n].ok

\* C15 witness: the COUNT statement failed and the request ended with that
\* error.
C15_Witness ==
    /\ req.pc = "done"
    /\ req.returned = << [kind |-> "COUNT", ok |-> FALSE, value |-> "Database"] >>
    /\ req.result = Some([err |-> "Database"])

\* C15 second case: the PAGE statement failed after a successful COUNT.
C15_PageFailureReached ==
    /\ req.pc = "done"
    /\ Len(req.returned) = 2
    /\ ~ req.returned[2].ok
    /\ ~ IsOk(req.result)

\* C16: a request sends at most two statements, never has more than one
\* awaiting its result, and with totals enabled the PAGE statement is sent only
\* after the COUNT statement, sent first, has returned.
C16_CountBeforePage ==
    /\ Len(req.issued) <= 2
    /\ Len(req.issued) - Len(req.returned) \in {0, 1}
    /\ (req.totals_count_enabled /\ PageStatements # <<>>) =>
          /\ req.issued[1].kind = "COUNT"
          /\ req.issued[2].kind = "PAGE"
          /\ req.returned # <<>>
          /\ req.returned[1].kind = "COUNT" /\ req.returned[1].ok

\* C16 witness: the PAGE statement is awaiting its result after the COUNT
\* statement returned.
C16_Witness ==
    /\ req.totals_count_enabled
    /\ req.pc = "page"
    /\ Len(req.issued) = 2
    /\ Len(req.returned) = 1

(***************************************************************************)
(* Specification of concurrent requests: every request owns a              *)
(* PaginatedQueryBuilder and runs fetch_paginated on the one pool they     *)
(* share; the steps of the requests interleave at the awaits.              *)
(***************************************************************************)
MaxRequests == 2
RequestIds == 1..MaxRequests

select_orders ==
    <<"S","E","L","E","C","T"," ","*"," ","F","R","O","M"," ","o","r","d","e","r","s">>

\* the builders the requests start from: base query, parameters, totals flag
\* and closure
BuilderPool ==
    { [ query |-> select_orders,
        params |-> [StatusActiveParams EXCEPT
                       !.pagination = [page |-> 3, page_size |-> 25],
                       !.search = [search |-> Some(john),
                                   search_columns |-> Some(<<name, status>>)]],
        totals_count_enabled |-> TRUE,
        build_query_fn |-> "build_query_with_safe_defaults" ],
      [ query |-> select_users,
        params |-> [QueryParams_default EXCEPT
                       !.sort = [sort_column |-> name, sort_direction |-> "Ascending"]],
        totals_count_enabled |-> FALSE,
        build_query_fn |-> "build_query_with_safe_defaults" ],
      [ query |-> select_users,
        params |-> [QueryParams_default EXCEPT
                       !.filters = << [key |-> oid, value |-> Some(active)] >>],
        totals_count_enabled |-> TRUE,
        build_query_fn |-> "build_query_with_disabled_protection" ] }

\* the result of the COUNT statement and the rows of the page of a concurrent
\* request
ConcurrentCounts == { 26 }
ConcurrentRows == { 1 }

\* the error a statement of a concurrent request fails with
ConcurrentErrors == { "PoolTimedOut" }

\* the builder every invocation would read if the process kept a single one
self_shared(requests, id) == requests[1].self

\* the receiver of fetch_paginated(self, pool): the builder of the request
self_of(requests, id) == requests[id].self

\* the statement a builder sends first and the one it sends after the COUNT
first_of(self, fields) ==
    statement_of(first_statement(self.totals_count_enabled),
                 self.build_query_fn, self.query, self.params, fields)

\* the statements a builder sends when it runs alone and every statement
\* succeeds
Alone(self, fields) ==
    [ i \in 1..(IF self.totals_count_enabled THEN 2 ELSE 1) |->
        statement_of(IF self.totals_count_enabled /\ i = 1 THEN "COUNT" ELSE "PAGE",
                     self.build_query_fn, self.query, self.params, fields) ]

\* every request also records the statements its builder sends when alone
InitConcurrent ==
    /\ protection = ColumnProtection_default
    /\ dialect = "postgres"
    /\ valid_columns = RecordFields
    /\ protection_enabled = TRUE
    /\ conditions = <<>>
    /\ arguments = <<>>
    /\ params = IdleParams
    /\ norm = IdleNorm
    /\ call = [in_flight |-> {}]
    /\ req \in [RequestIds ->
                  { [pc |-> "new", self |-> b, alone |-> Alone(b, RecordFields),
                     issued |-> <<>>, returned |-> <<>>,
                     totals |-> None, result |-> None] : b \in BuilderPool }]

ConcurrentFrame ==
    UNCHANGED <<protection, dialect, valid_columns, protection_enabled,
                conditions, arguments, params, norm>>

\* the pool takes a statement of request id
acquire(pool, id, statement) ==
    [pool EXCEPT !.in_flight = @ \cup {[id |-> id, statement |-> statement]}]

\* the pool hands the answer of a statement back to request id
release(pool, id) ==
    [pool EXCEPT !.in_flight = {e \in @ : e.id # id}]

\* fetch_paginated of request id up to its first await
ConcurrentFetch(id) ==
    /\ req[id].pc = "new"
    /\ LET self == self_of(req, id)
       IN  \E statement \in {first_of(self, valid_columns)} :
           /\ req' = [req EXCEPT
                  ![id].pc = IF statement.kind = "COUNT" THEN "count" ELSE "page",
                  ![id].totals =
                      IF statement.kind = "COUNT" THEN None
                      ELSE Some(totals(self.totals_count_enabled, 0, self.params.pagination)),
                  ![id].issued = Append(@, statement)]
           /\ call' = acquire(call, id, statement)
    /\ ConcurrentFrame

\* the COUNT statement of request id returns and its PAGE statement is sent
ConcurrentCountReturns(id) ==
    /\ req[id].pc = "count"
    /\ \E e \in call.in_flight : e.id = id /\ e.statement.kind = "COUNT"
    /\ LET self == self_of(req, id)
       IN  \E statement \in {page_statement(self.build_query_fn, self.query,
                                            self.params, valid_columns)},
              count \in ConcurrentCounts :
              /\ req' = [req EXCEPT
                     ![id].pc = "page",
                     ![id].returned = Append(@, [kind |-> "COUNT", ok |-> TRUE,
                                                 value |-> count]),
                     ![id].totals = Some(totals(self.totals_count_enabled, count,
                                                self.params.pagination)),
                     ![id].issued = Append(@, statement)]
              /\ call' = acquire(release(call, id), id, statement)
    /\ ConcurrentFrame

\* the PAGE statement of request id returns its rows
ConcurrentPageReturns(id) ==
    /\ req[id].pc = "page"
    /\ \E e \in call.in_flight : e.id = id /\ e.statement.kind = "PAGE"
    /\ \E rows \in ConcurrentRows :
          req' = [req EXCEPT
                ![id].pc = "done",
                ![id].returned = Append(@, [kind |-> "PAGE", ok |-> TRUE, value |-> rows]),
                ![id].result = Some(response(rows, unwrap(req[id].totals)))]
    /\ call' = release(call, id)
    /\ ConcurrentFrame

\* the statement request id waits for fails
ConcurrentFails(id) ==
    /\ req[id].pc \in {"count", "page"}
    /\ \E error \in ConcurrentErrors :
          req' = [req EXCEPT
                ![id].pc = "done",
                ![id].returned = Append(@, [kind |-> IF req[id].pc = "count"
                                                     THEN "COUNT" ELSE "PAGE",
                                            ok |-> FALSE, value |-> error]),
                ![id].result = Some(propagate(error))]
    /\ call' = release(call, id)
    /\ ConcurrentFrame

NextConcurrent ==
    \E id \in RequestIds :
        \/ ConcurrentFetch(id)
        \/ ConcurrentCountReturns(id)
        \/ ConcurrentPageReturns(id)
        \/ ConcurrentFails(id)

SpecConcurrent == InitConcurrent /\ [][NextConcurrent]_vars

IntegerTexts ==
    { <<"1","2","3">>,
      <<"-","4","5","6">>,
      <<"+","7">>,
      <<"3","2","7","6","7">>,
      <<"3","2","7","6","8">>,
      <<"-","3","2","7","6","9">>,
      <<"2","1","4","7","4","8","3","6","4","7">>,
      <<"2","1","4","7","4","8","3","6","4","8">>,
      <<"9","2","2","3","3","7","2","0","3","6","8","5","4","7","7","5","8","0","7">>,
      <<"9","2","2","3","3","7","2","0","3","6","8","5","4","7","7","5","8","0","8">>,
      <<" ","4","2"," ">> }

FloatTexts ==
    { <<"3",".","1","4">>,
      <<"1","e","5">>,
      <<"-","0",".","5">>,
      <<"1",".","7","9","7","6","9","3","1","3","4","8","6","2","3","1","5","7","e","+","3","0","8">>,
      <<"i","n","f">> }

SentinelTexts ==
    { <<"n","u","l","l">>,
      <<"N","U","L","L">>,
      <<"N","a","N">>,
      <<"I","n","f","i","n","i","t","y">>,
      <<"-","i","n","f","i","n","i","t","y">> }

BooleanTexts ==
    { <<"t">>,
      <<"F">>,
      <<"t","r","u","e">>,
      <<"F","A","L","S","E">> }

ByteTexts ==
    { <<"\\","x","0","f">>,
      <<"\\","x">>,
      <<"\\","x","G","G">>,
      <<"\\","X","D","E","A","D","B","E","E","F">> }

JsonTexts ==
    { <<"{","}">>,
      <<"[","1",","," ","2","]">>,
      <<"{","\"","a","\"",":"," ","1","}">>,
      <<"{","\"","a","\"",":"," ","[","t","r","u","e",","," ","n","u","l","l","]","}">>,
      <<"{","b","a","d">>,
      <<"[","1",",">>,
      <<"[","0","1","]">> }

XmlTexts ==
    { <<"<","a","/",">">>,
      <<"<","?","x","m","l">>,
      <<"<","1",">">>,
      <<"<","a">> }

AddressTexts ==
    { <<"1","9","2",".","1","6","8",".","0",".","1">>,
      <<"2","5","6",".","1",".","1",".","1">>,
      <<"0","1",".","1",".","1",".","1">>,
      <<":",":","1">>,
      <<":",":">>,
      <<"2","0","0","1",":","d","b","8",":",":","1">>,
      <<"1",":","2",":","3",":","4",":","5",":","6",":","7",":","8">>,
      <<"1",":","2",":","3",":","4",":","5",":","6",":","7",":",":","8">>,
      <<":",":","f","f","f","f",":","1","0",".","0",".","0",".","1">> }

UuidTexts ==
    { <<"5","5","0","e","8","4","0","0","-","e","2","9","b","-","4","1","d","4","-","a","7","1","6","-","4","4","6","6","5","5","4","4","0","0","0","0">>,
      <<"5","5","0","E","8","4","0","0","-","E","2","9","B","-","4","1","D","4","-","A","7","1","6","-","4","4","6","6","5","5","4","4","0","0","0","0">>,
      <<"5","5","0","e","8","4","0","0","e","2","9","b","4","1","d","4","a","7","1","6","4","4","6","6","5","5","4","4","0","0","0","0">>,
      <<"{","5","5","0","e","8","4","0","0","-","e","2","9","b","-","4","1","d","4","-","a","7","1","6","-","4","4","6","6","5","5","4","4","0","0","0","0","}">>,
      <<"u","r","n",":","u","u","i","d",":","5","5","0","e","8","4","0","0","-","e","2","9","b","-","4","1","d","4","-","a","7","1","6","-","4","4","6","6","5","5","4","4","0","0","0","0">>,
      <<"1","2","3","4","5","6","7","8","9","0","1","2","3","4","5","6","7","8","9","0","1","2","3","4","5","6","7","8","9","0","1","2">>,
      <<"5","5","0","e","8","4","0","0","-","e","2","9","b","-","4","1","d","4","-","a","7","1","6","-","4","4","6","6","5","5","4","4","0","0","0","g">> }

DateTimeTexts ==
    { <<"2","0","2","4","-","0","1","-","0","1">>,
      <<"2","0","2","4","-","0","2","-","2","9">>,
      <<"2","0","2","3","-","0","2","-","2","9">>,
      <<"2","0","2","4","-","1","3","-","0","1">>,
      <<"1","2",":","3","4",":","5","6">>,
      <<"2","4",":","0","0",":","0","0">>,
      <<"2","0","2","4","-","0","1","-","0","1"," ","1","2",":","3","4",":","5","6">>,
      <<"2","0","2","4","-","0","1","-","0","1","T","1","2",":","3","4",":","5","6","Z">>,
      <<"2","0","2","4","-","0","1","-","0","1","T","1","2",":","3","4",":","5","6","+","0","2",":","0","0">>,
      <<"2","0","2","4","-","0","1","-","0","1","T","1","2",":","3","4",":","5","6">> }

PlainTexts ==
    { <<>>,
      <<"a","c","t","i","v","e">>,
      <<"a","b","c"," ","d","e","f">>,
      <<"1","2","a","b","c">> }

CastPool ==
    IntegerTexts \cup FloatTexts \cup SentinelTexts \cup BooleanTexts
      \cup ByteTexts \cup JsonTexts \cup XmlTexts \cup AddressTexts
      \cup UuidTexts \cup DateTimeTexts \cup PlainTexts

InitCast ==
    /\ protection = ColumnProtection_default
    /\ BuilderIdle
    /\ params = IdleParams
    /\ req = IdleReq
    /\ norm = IdleNorm
    /\ \E value \in CastPool : call = [op |-> "new", arg |-> value]

\* type_cast resolved to postgres_dialect_utils::get_postgres_type_casting
DialectsTypeCast ==
    /\ call.op = "new"
    /\ call' = [op |-> "dialects", arg |-> call.arg,
                out |-> get_postgres_type_casting(call.arg)]
    /\ UNCHANGED <<protection, dialect, valid_columns, protection_enabled,
                   conditions, arguments, params, req, norm>>

\* type_cast resolved to internal_utils::get_postgres_type_casting
InternalUtilsTypeCast ==
    /\ call.op = "new"
    /\ call' = [op |-> "internal_utils", arg |-> call.arg,
                out |-> internal_utils_get_postgres_type_casting(call.arg)]
    /\ UNCHANGED <<protection, dialect, valid_columns, protection_enabled,
                   conditions, arguments, params, req, norm>>

NextCast == DialectsTypeCast \/ InternalUtilsTypeCast

SpecCast == InitCast /\ [][NextCast]_vars

(***************************************************************************)
(* Claims about the cast inference                                         *)
(***************************************************************************)
\* the cast of the earliest class, in the stated order, that the trimmed and
\* lower-cased value belongs to
EarliestClass(value) ==
    IF is_sentinel(value) THEN ""
    ELSE IF is_bytea(value) THEN "::bytea"
    ELSE IF (starts_with(value, "{") \/ starts_with(value, "[")) /\ is_json(value)
    THEN "::jsonb"
    ELSE IF is_xml(value) THEN "::xml"
    ELSE IF is_ip(value) THEN "::inet"
    ELSE IF is_uuid(value) THEN "::uuid"
    ELSE IF is_naive_datetime(value) THEN "::timestamp without time zone"
    ELSE IF is_naive_date(value) THEN "::date"
    ELSE IF is_naive_time(value) THEN "::time"
    ELSE IF is_rfc3339(value) THEN "::timestamp with time zone"
    ELSE IF is_boolean(value) THEN "::boolean"
    ELSE IF parses_int(value, I16_MAX, I16_MIN_MAGNITUDE) THEN "::smallint"
    ELSE IF parses_int(value, I32_MAX, I32_MIN_MAGNITUDE) THEN "::integer"
    ELSE IF parses_int(value, I64_MAX, I64_MIN_MAGNITUDE) THEN "::bigint"
    ELSE IF parses_float(value) THEN "::real"
    ELSE ""

EarliestClassCast(raw) == EarliestClass(to_lowercase(trim(raw)))

\* C19: the cast inferred for a value is the cast of the earliest class, in
\* the stated order, that the value belongs to; an integer literal gets the
\* narrowest integer width that holds it ("123" gets ::smallint).
C19_CastIsFirstMatch ==
    call.op \in {"dialects", "internal_utils"} =>
        call.out = EarliestClassCast(call.arg)

\* the same statement for the definition in dialects alone
DialectsCastIsFirstMatch ==
    call.op = "dialects" => call.out = EarliestClassCast(call.arg)

\* the definition in dialects departs from the class order only on a text in
\* braces or brackets that is no JSON
DialectsCastDepartsOnlyOnBraces ==
    (call.op = "dialects" /\ call.out # EarliestClassCast(call.arg)) =>
        LET value == to_lowercase(trim(call.arg))
        IN  (starts_with(value, "{") \/ starts_with(value, "[")) /\ ~ is_json(value)

\* "123" has been cast by the definition in internal_utils
C19_BigintReached ==
    /\ call.op = "internal_utils"
    /\ call.arg = <<"1","2","3">>
    /\ call.out = "::bigint"

(***************************************************************************)
(* Specification of identifier quoting: one identifier is handed to the    *)
(* free quote_identifier or to a dialect's quote_identifier                *)
(***************************************************************************)
\* characters of the identifiers: a letter, the quote character, the dot and
\* the statement terminator
QuoteChars == { "a", "\"", ".", ";" }
MaxIdentLen == 3

QuotePool == UNION { [1..n -> QuoteChars] : n \in 0..MaxIdentLen }

InitQuote ==
    /\ protection = ColumnProtection_default
    /\ BuilderIdle
    /\ params = IdleParams
    /\ req = IdleReq
    /\ norm = IdleNorm
    /\ \E identifier \in QuotePool : call = [op |-> "new", arg |-> identifier]

\* internal_utils::quote_identifier, as build_order_clause and with_condition
\* call it
QuoteIdentifier ==
    /\ call.op = "new"
    /\ call' = [op |-> "quote_identifier", arg |-> call.arg,
                out |-> quote_identifier(call.arg)]
    /\ UNCHANGED <<protection, dialect, valid_columns, protection_enabled,
                   conditions, arguments, params, req, norm>>

\* QueryDialect::quote_identifier of either dialect
DialectQuoteIdentifier ==
    /\ call.op = "new"
    /\ \E d \in {"postgres", "sqlite"} :
          call' = [op |-> "dialect", d |-> d, arg |-> call.arg,
                   out |-> dialect_quote_identifier(d, call.arg)]
    /\ UNCHANGED <<protection, dialect, valid_columns, protection_enabled,
                   conditions, arguments, params, req, norm>>

NextQuote == QuoteIdentifier \/ DialectQuoteIdentifier

SpecQuote == InitQuote /\ [][NextQuote]_vars

\* un-quoting: the wrapper removed, then every doubled quote character made one
strip_wrapper(q) == SubSeq(q, 2, Len(q) - 1)

RECURSIVE undouble(_)
undouble(s) ==
    IF s = <<>> THEN <<>>
    ELSE IF Len(s) >= 2 /\ s[1] = "\"" /\ s[2] = "\""
         THEN <<"\"">> \o undouble(SubSeq(s, 3, Len(s)))
    ELSE <<Head(s)>> \o undouble(Tail(s))

unquote(q) == undouble(strip_wrapper(q))

\* every quote character of s is one of a doubled pair
RECURSIVE well_escaped(_)
well_escaped(s) ==
    IF s = <<>> THEN TRUE
    ELSE IF Head(s) # "\"" THEN well_escaped(Tail(s))
    ELSE Len(s) >= 2 /\ s[2] = "\"" /\ well_escaped(SubSeq(s, 3, Len(s)))

IsWrapped(q) == Len(q) >= 2 /\ q[1] = "\"" /\ q[Len(q)] = "\""

\* the quoting the last step applied
Quoted(identifier) ==
    IF call.op = "dialect" THEN dialect_quote_identifier(call.d, identifier)
    ELSE quote_identifier(identifier)

\* C18 as claimed: for either quoting function and every identifier, removing
\* the wrapper and un-doubling the quote characters gives the identifier back,
\* and no quote character inside the wrapper is left unescaped.
C18_QuotingRoundTrips ==
    call.op # "new" =>
        /\ IsWrapped(call.out)
        /\ unquote(call.out) = call.arg
        /\ well_escaped(strip_wrapper(call.out))

\* C18, amended: the dialect quote_identifier round-trips on every identifier;
\* the free quote_identifier quotes each dot-separated part on its own, so its
\* output is a dot-separated list of wrapped parts, each of which round-trips
\* and has no unescaped quote character, and the whole round-trips when the
\* identifier has no dot. Both are injective.
C18_QuotingRoundTripsPerPart ==
    /\ call.op = "dialect" =>
          /\ IsWrapped(call.out)
          /\ unquote(call.out) = call.arg
          /\ well_escaped(strip_wrapper(call.out))
    /\ call.op = "quote_identifier" =>
          LET quoted_parts == split_dot(call.out)
          IN  /\ \A i \in DOMAIN quoted_parts :
                    /\ IsWrapped(quoted_parts[i])
                    /\ well_escaped(strip_wrapper(quoted_parts[i]))
              /\ join([i \in DOMAIN quoted_parts |-> unquote(quoted_parts[i])], <<".">>)
                    = call.arg
              /\ (\A i \in DOMAIN call.arg : call.arg[i] # ".") =>
                    unquote(call.out) = call.arg
    /\ call.op # "new" =>
          \A other \in QuotePool : Quoted(other) = call.out => other = call.arg

\* C18 witness: the free quote_identifier was handed an identifier with a quote
\* character, a dot and a statement terminator.
C18_Witness ==
    /\ call.op = "quote_identifier"
    /\ call.arg = << "\"", ".", ";" >>
    /\ call.out = << "\"", "\"", "\"", "\"", ".", "\"", ";", "\"" >>

(***************************************************************************)
(* Specification of the QueryParamsBuilder: a QueryParams is made either   *)
(* by QueryParamsBuilder::new() followed by setters and build(), or by     *)
(* From<FlatQueryParams> of an input none of whose groups is present.      *)
(***************************************************************************)
\* QueryParamsBuilder::new
QueryParamsBuilder_new == [query |-> QueryParams_default]

\* QueryParamsBuilder::with_sort
QueryParamsBuilder_with_sort(query, sort_column, sort_direction) ==
    [query EXCEPT !.sort =
        [sort_column |-> sort_column, sort_direction |-> sort_direction]]

\* QueryParamsBuilder::with_search
QueryParamsBuilder_with_search(query, search, search_columns) ==
    [query EXCEPT !.search =
        [search |-> Some(search), search_columns |-> Some(search_columns)]]

\* a with_date_range that also sorts by the date column
with_date_range_sorting(query, date_after, date_before, column_name) ==
    [query EXCEPT !.date_range =
        [ date_after |-> date_after, date_before |-> date_before,
          date_column |-> IF column_name = None THEN Some(created_at)
                          ELSE column_name ],
                  !.sort.sort_column =
                      IF column_name = None THEN created_at ELSE unwrap(column_name)]

\* QueryParamsBuilder::with_date_range
QueryParamsBuilder_with_date_range(query, date_after, date_before, column_name) ==
    [query EXCEPT !.date_range =
        [ date_after |-> date_after, date_before |-> date_before,
          date_column |-> IF column_name = None THEN Some(created_at)
                          ELSE Some(unwrap(column_name)) ]]

\* HashMap::insert on a map kept as the sequence of its entries
HashMap_insert(map, key, value) ==
    IF \E i \in DOMAIN map : map[i].key = key
    THEN [i \in DOMAIN map |->
             IF map[i].key = key THEN [key |-> key, value |-> value] ELSE map[i]]
    ELSE Append(map, [key |-> key, value |-> value])

\* QueryParamsBuilder::with_filter
QueryParamsBuilder_with_filter(query, fields, key, value) ==
    IF key \in fields
    THEN [query EXCEPT !.filters = HashMap_insert(query.filters, key, value)]
    ELSE query

\* HashMap::extend with the entries whose key is a field of the record
RECURSIVE HashMap_extend(_, _, _)
HashMap_extend(map, fields, entries) ==
    IF entries = <<>> THEN map
    ELSE HashMap_extend(
            IF Head(entries).key \in fields
            THEN HashMap_insert(map, Head(entries).key, Head(entries).value)
            ELSE map,
            fields, Tail(entries))

\* QueryParamsBuilder::with_filters
QueryParamsBuilder_with_filters(query, fields, entries) ==
    [query EXCEPT !.filters = HashMap_extend(query.filters, fields, entries)]

\* a FlatQueryParams none of whose groups is present
AllAbsent == [ pagination |-> None, sort |-> None, search |-> None,
               date_range |-> None, filters |-> None ]

\* the number of setter calls on one QueryParamsBuilder
MaxSetterCalls == 3

SetterPages == { -1, 1, 3 }
SetterPageSizes == { 5, 20, 99 }
SetterSorts == { [sort_column |-> name, sort_direction |-> "Ascending"],
                 [sort_column |-> oid, sort_direction |-> "Descending"] }
SetterSearches == { [search |-> john, search_columns |-> <<name, email>>],
                    [search |-> empty, search_columns |-> <<>>] }
SetterDates == { [date_after |-> Some("t1"), date_before |-> None, column_name |-> None],
                 [date_after |-> None, date_before |-> Some("t2"),
                  column_name |-> Some(status)] }
SetterFilters == { [key |-> status, value |-> Some(active)],
                   [key |-> status, value |-> None],
                   [key |-> email, value |-> Some(one)],
                   [key |-> name, value |-> Some(john)] }
SetterFilterMaps == { << [key |-> name, value |-> Some(one)],
                         [key |-> email, value |-> Some(active)] >>,
                      << [key |-> oid, value |-> None] >> }

Groups == {"pagination", "sort", "search", "date_range", "filters"}

\* the group a setter writes
GroupOf(op) ==
    CASE op = "with_pagination" -> "pagination"
      [] op = "with_sort" -> "sort"
      [] op = "with_search" -> "search"
      [] op = "with_date_range" -> "date_range"
      [] op \in {"with_filter", "with_filters"} -> "filters"

InitParams ==
    /\ protection = ColumnProtection_default
    /\ BuilderIdle
    /\ req = IdleReq
    /\ call = NoCall
    /\ \E origin \in {"new", "from"} :
          /\ params = IF origin = "new" THEN QueryParamsBuilder_new.query
                      ELSE QueryParams_from(AllAbsent)
          /\ norm = [op |-> origin, n |-> 0, before |-> params]

ParamsFrame == UNCHANGED <<protection, dialect, valid_columns, protection_enabled,
                           conditions, arguments, req, call>>

Setter(op, query) ==
    /\ params' = query
    /\ norm' = [op |-> op, n |-> norm.n + 1, before |-> params]
    /\ ParamsFrame

CanSet == norm.op # "from" /\ norm.n < MaxSetterCalls

SetPagination ==
    /\ CanSet
    /\ \E page \in SetterPages, page_size \in SetterPageSizes :
          Setter("with_pagination", with_pagination(params, page, page_size))

SetSort ==
    /\ CanSet
    /\ \E s \in SetterSorts :
          Setter("with_sort",
                 QueryParamsBuilder_with_sort(params, s.sort_column, s.sort_direction))

SetSearch ==
    /\ CanSet
    /\ \E s \in SetterSearches :
          Setter("with_search",
                 QueryParamsBuilder_with_search(params, s.search, s.search_columns))

SetDateRange ==
    /\ CanSet
    /\ \E d \in SetterDates :
          Setter("with_date_range",
                 QueryParamsBuilder_with_date_range(params, d.date_after, d.date_before,
                                                    d.column_name))

SetFilter ==
    /\ CanSet
    /\ \E f \in SetterFilters :
          Setter("with_filter",
                 QueryParamsBuilder_with_filter(params, RecordFields, f.key, f.value))

SetFilters ==
    /\ CanSet
    /\ \E entries \in SetterFilterMaps :
          Setter("with_filters",
                 QueryParamsBuilder_with_filters(params, RecordFields, entries))

NextParams ==
    SetPagination \/ SetSort \/ SetSearch \/ SetDateRange \/ SetFilter \/ SetFilters

SpecParams == InitParams /\ [][NextParams]_vars

\* C21: a QueryParams built with no setter, or converted from a
\* FlatQueryParams whose groups are all absent, has page 1, page size 10, sort
\* by created_at descending, date column created_at without bounds, no search
\* term, search columns name and description, and no filters; and every
\* setter of the builder leaves each group other than its own as it was.
C21_EmptyDefaultsAndFrame ==
    /\ norm.n = 0 =>
          /\ params.pagination = [page |-> 1, page_size |-> 10]
          /\ params.sort = [sort_column |-> created_at, sort_direction |-> "Descending"]
          /\ params.date_range = [date_column |-> Some(created_at),
                                  date_after |-> None, date_before |-> None]
          /\ params.search = [search |-> None,
                              search_columns |-> Some(<<name, description>>)]
          /\ params.filters = <<>>
    /\ norm.n > 0 =>
          \A g \in Groups \ {GroupOf(norm.op)} : params[g] = norm.before[g]

\* C21 witness: after a search and a filter were set, with_date_range named
\* another date column; an unconverted default sits in no such state.
C21_Witness ==
    /\ norm.op = "with_date_range" /\ norm.n = 3
    /\ params.date_range.date_column = Some(status)
    /\ params.search.search = Some(john)
    /\ params.filters = << [key |-> status, value |-> Some(active)] >>
    /\ params.pagination = [page |-> 1, page_size |-> 10]

(***************************************************************************)
(* Placeholders and bound arguments of the condition builder               *)
(***************************************************************************)
\* the positions of the placeholders of one fragment
PlaceholderPositions(fragment) ==
    { j \in DOMAIN fragment : fragment[j].k = "placeholder" }

\* the placeholders of one fragment
PlaceholdersOf(fragment) ==
    { fragment[j].v : j \in PlaceholderPositions(fragment) }

\* the ordinals used by the "$n" placeholders of a list of fragments
Ordinals(fragments) ==
    { p[2] : p \in { q \in UNION { PlaceholdersOf(fragments[i]) : i \in DOMAIN fragments } :
                        Len(q) = 2 } }

\* the argument is the value the operation that emitted the fragment was given
FragmentBinds(fragment, argument) ==
    \/ /\ fragment[1] = Lit("(")
       /\ params.search.search # None
       /\ argument = [ty |-> "string",
                      v |-> <<"%">> \o unwrap(params.search.search) \o <<"%">>]
    \/ /\ fragment[Len(fragment)].k = "cast"
       /\ \E i \in DOMAIN params.filters :
             /\ fragment[1] = Ident(dialect_quote_identifier(dialect, params.filters[i].key))
             /\ params.filters[i].value = Some(argument.v)
       /\ argument.ty = "string"
    \/ /\ fragment[2] = Lit(" >= ")
       /\ params.date_range.date_after # None
       /\ argument = [ty |-> "datetime", v |-> unwrap(params.date_range.date_after)]
    \/ /\ fragment[2] = Lit(" <= ")
       /\ params.date_range.date_before # None
       /\ argument = [ty |-> "datetime", v |-> unwrap(params.date_range.date_before)]
    \/ /\ fragment[2] = Lit(" ")
       /\ argument = [ty |-> "string", v |-> eighteen]

\* C22: on the Postgres builder, after any sequence of with_search,
\* with_filters, with_date_range and with_condition on a fresh builder, the
\* ordinals of the placeholders are exactly 1..N for N bound arguments, every
\* fragment uses the one ordinal that is the number of arguments bound before
\* it plus one, and the argument at that position is the value of that
\* fragment.
C22_PostgresOrdinalsAreDense ==
    dialect = "postgres" =>
        /\ Ordinals(conditions) = 1..Len(arguments)
        /\ Len(conditions) = Len(arguments)
        /\ \A i \in DOMAIN conditions :
              /\ PlaceholdersOf(conditions[i]) = { <<"$", i>> }
              /\ FragmentBinds(conditions[i], arguments[i])

\* C22 witness: a Postgres builder holds three fragments, the first a search
\* over two columns whose two placeholders are both $1, and the last one was
\* emitted by with_condition with $3.
C22_Witness ==
    /\ dialect = "postgres"
    /\ Len(conditions) = 3 /\ Len(arguments) = 3
    /\ Cardinality(PlaceholderPositions(conditions[1])) = 2
    /\ call.op = "with_condition"
    /\ Len(call.before.arguments) = 2
    /\ PlaceholdersOf(conditions[3]) = { <<"$", 3>> }

\* the number of placeholder occurrences of a list of fragments
RECURSIVE PlaceholderCount(_)
PlaceholderCount(fragments) ==
    IF fragments = <<>> THEN 0
    ELSE Cardinality(PlaceholderPositions(Head(fragments)))
           + PlaceholderCount(Tail(fragments))

\* C23: on the SQLite builder every placeholder is the one the dialect renders,
\* and the fragments hold as many placeholders as arguments are bound, a search
\* over several valid columns included.
C23_SqlitePlaceholdersMatchArguments ==
    dialect = "sqlite" =>
        /\ \A i \in DOMAIN conditions :
              \A p \in PlaceholdersOf(conditions[i]) :
                  \E position \in 1..(Len(arguments) + 1) :
                      p = dialect_placeholder(dialect, position)
        /\ PlaceholderCount(conditions) = Len(arguments)

(***************************************************************************)
(* Specification of the LIMIT/OFFSET arithmetic at the width of i64.  An   *)
(* i64 is kept as four 16-bit limbs, least significant first, in two's     *)
(* complement.  A raw page is normalized by page_deserialize and the       *)
(* clause is built from it; the multiplication panics on overflow in a     *)
(* build with overflow checks and wraps in a build without them.           *)
(***************************************************************************)
\* limbs * m + carry, as the limbs followed by the carry out of the top limb
RECURSIVE limbs_mul_add(_, _, _)
limbs_mul_add(limbs, m, carry) ==
    IF limbs = <<>> THEN <<carry>>
    ELSE <<(Head(limbs) * m + carry) % 65536>>
           \o limbs_mul_add(Tail(limbs), m, (Head(limbs) * m + carry) \div 65536)

\* limbs - 1 for limbs that are not zero
RECURSIVE limbs_dec(_)
limbs_dec(limbs) ==
    IF Head(limbs) = 0 THEN <<65535>> \o limbs_dec(Tail(limbs))
    ELSE <<Head(limbs) - 1>> \o Tail(limbs)

\* the remainder of the unsigned value of the limbs on division by m
RECURSIVE limbs_mod(_, _)
limbs_mod(limbs, m) ==
    IF limbs = <<>> THEN 0
    ELSE (limbs_mod(Tail(limbs), m) * 65536 + Head(limbs)) % m

i64_zero == <<0, 0, 0, 0>>
i64_one == <<1, 0, 0, 0>>

\* the sign bit of an i64
i64_is_negative(x) == x[4] >= 32768

\* the i64 of a digit string that str::parse::<i64>() accepts
RECURSIVE i64_of_digits(_)
i64_of_digits(s) ==
    IF s = <<>> THEN i64_zero
    ELSE SubSeq(limbs_mul_add(i64_of_digits(SubSeq(s, 1, Len(s) - 1)), 10,
                              digit_value(s[Len(s)])), 1, 4)

\* i64 multiplication by a page size: the product without a bound
i64_product(x, m) == limbs_mul_add(x, m, 0)

\* i64::wrapping_mul
i64_wrapping_mul(x, m) == SubSeq(i64_product(x, m), 1, 4)

\* i64::checked_mul(..).is_none() for operands that are not negative
i64_mul_overflows(x, m) ==
    i64_product(x, m)[5] # 0 \/ i64_is_negative(i64_wrapping_mul(x, m))

\* page_deserialize with the page kept at the width of i64
page_deserialize_i64(value) ==
    IF value = None THEN i64_one
    ELSE IF trim(unwrap(value)) = <<>> \/ starts_with(trim(unwrap(value)), "-")
         THEN i64_one
    ELSE IF ~ parses_int(extract_digits_from_strings(unwrap(value)),
                         I64_MAX, I64_MIN_MAGNITUDE)
         THEN i64_one
    ELSE IF i64_of_digits(extract_digits_from_strings(unwrap(value))) = i64_zero
         THEN i64_one
    ELSE i64_of_digits(extract_digits_from_strings(unwrap(value)))

Panic == [panic |-> "attempt to multiply with overflow"]

\* PaginatedQueryBuilder::build_limit_offset_clause at the width of i64
build_limit_offset_clause_i64(pagination, overflow_checks) ==
    IF overflow_checks /\ i64_mul_overflows(limbs_dec(pagination.page), pagination.page_size)
    THEN Panic
    ELSE [ limit |-> pagination.page_size,
           offset |-> i64_wrapping_mul(limbs_dec(pagination.page), pagination.page_size) ]

\* raw page values: small pages, the largest pages whose offset fits for the
\* largest and the smallest page size, their successors, the largest i64 and
\* its successor
RawPages ==
    { None,
      Some(<<"0">>), Some(<<"1">>), Some(<<"2">>), Some(<<"-","5">>),
      Some(<<"p","a","g","e","7">>),
      Some(<<"6","5","5","3","7">>),
      Some(<<"4","2","9","4","9","6","7","2","9","7">>),
      Some(<<"1","8","4","4","6","7","4","4","0","7","3","7","0","9","5","5","1","7">>),
      Some(<<"1","8","4","4","6","7","4","4","0","7","3","7","0","9","5","5","1","8">>),
      Some(<<"9","2","2","3","3","7","2","0","3","6","8","5","4","7","7","5","8","1">>),
      Some(<<"9","2","2","3","3","7","2","0","3","6","8","5","4","7","7","5","8","2">>),
      Some(<<"1","8","4","4","6","7","4","4","0","7","3","7","0","9","5","5","1","6","1","7">>),
      Some(I64_MAX),
      Some(I64_MIN_MAGNITUDE) }

InitOffset ==
    /\ protection = ColumnProtection_default
    /\ BuilderIdle
    /\ params = QueryParams_default
    /\ req = IdleReq
    /\ call = NoCall
    /\ \E raw \in RawPages, page_size \in DEFAULT_MIN_PAGE_SIZE..DEFAULT_MAX_PAGE_SIZE,
          overflow_checks \in BOOLEAN :
          norm = [op |-> "raw", raw |-> raw, page_size |-> page_size,
                  overflow_checks |-> overflow_checks]

OffsetFrame == UNCHANGED <<protection, dialect, valid_columns, protection_enabled,
                           conditions, arguments, params, req>>

\* the page of the request is deserialized
NormalizePage ==
    /\ norm.op = "raw"
    /\ norm' = [norm EXCEPT !.op = "normalized"]
    /\ call' = [op |-> "page_deserialize", n |-> 0,
                out |-> [page |-> page_deserialize_i64(norm.raw),
                         page_size |-> norm.page_size]]
    /\ OffsetFrame

\* fetch_paginated builds the LIMIT/OFFSET clause of the PAGE statement
BuildLimitOffset ==
    /\ norm.op = "normalized"
    /\ norm' = [op |-> "built", raw |-> norm.raw, page_size |-> norm.page_size,
                overflow_checks |-> norm.overflow_checks, pagination |-> call.out]
    /\ call' = [op |-> "build_limit_offset_clause", n |-> 0,
                out |-> build_limit_offset_clause_i64(call.out, norm.overflow_checks)]
    /\ OffsetFrame

NextOffset == NormalizePage \/ BuildLimitOffset

SpecOffset == InitOffset /\ [][NextOffset]_vars

\* C24: for every page the normalizer produces, up to the largest i64, and
\* every page size between the minimum and the maximum, the clause is built,
\* its LIMIT is the page size and its OFFSET is (page - 1) * page_size exactly:
\* not negative, a multiple of the page size, and 0 for page 1.
C24_OffsetIsExact ==
    call.op = "build_limit_offset_clause" =>
        /\ call.out # Panic
        /\ call.out.limit = norm.page_size
        /\ call.out.offset \o <<0>> = i64_product(limbs_dec(norm.pagination.page),
                                                 norm.page_size)
        /\ ~ i64_is_negative(call.out.offset)
        /\ limbs_mod(call.out.offset, norm.page_size) = 0
        /\ norm.pagination.page = i64_one => call.out.offset = i64_zero

(***************************************************************************)
(* Specification of the fragment order: every operation of the condition   *)
(* builder, with_raw_condition and with_combined_conditions included, is   *)
(* applied to a fresh builder in any order until build consumes it and     *)
(* the WHERE clause is made of its fragments.                              *)
(***************************************************************************)
\* one step of a closure handed to with_combined_conditions: when the record
\* has all the columns asked for, push the condition and add the arguments
closure_step(b, step) ==
    IF \A column \in step.columns : has_column(b, column)
    THEN [b EXCEPT !.conditions = Append(@, << [k |-> "raw", v |-> step.condition] >>),
                   !.arguments = @ \o step.arguments]
    ELSE b

\* QueryBuilder::with_combined_conditions: f(&mut self); self
RECURSIVE with_combined_conditions(_, _)
with_combined_conditions(b, f) ==
    IF f = <<>> THEN b
    ELSE with_combined_conditions(closure_step(b, Head(f)), Tail(f))

role == <<"r","o","l","e">>
score == <<"s","c","o","r","e">>

\* the closures of the repository: the one of the documentation of
\* with_combined_conditions, the one of the advanced example, and the latter
\* with a column the record type has
ClosurePool ==
    { << [columns |-> {}, condition |-> "status = 'active'", arguments |-> <<>>],
         [columns |-> {}, condition |-> "age >= 18", arguments |-> <<>>] >>,
      << [columns |-> {status, role},
          condition |-> "(status = 'active' AND role IN ('admin', 'user'))",
          arguments |-> <<>>],
         [columns |-> {score}, condition |-> "score BETWEEN $1 AND $2",
          arguments |-> << [ty |-> "int", v |-> 50], [ty |-> "int", v |-> 100] >>] >>,
      << [columns |-> {status, name},
          condition |-> "(status = 'active' AND name IN ('admin', 'user'))",
          arguments |-> <<>>],
         [columns |-> {created_at}, condition |-> "created_at BETWEEN $1 AND $2",
          arguments |-> << [ty |-> "int", v |-> 50], [ty |-> "int", v |-> 100] >>] >> }

RawConditions == { "", "age >= 18" }

FragmentParams ==
    { q \in ParamsPool :
        /\ q.search \in { SearchPool[1], SearchPool[2] }
        /\ q.filters \in { FiltersPool[1], FiltersPool[4], FiltersPool[7] } }

InitFragments ==
    /\ InitBuilder
    /\ params \in FragmentParams

\* the builder has not been consumed by build
Unbuilt == call.op # "build"

FragmentSearch == Unbuilt /\ WithSearch
FragmentFilters == Unbuilt /\ WithFilters
FragmentDateRange == Unbuilt /\ WithDateRange
FragmentCondition == Unbuilt /\ WithCondition
FragmentDisableProtection == Unbuilt /\ DisableProtection

WithRawCondition ==
    /\ Unbuilt
    /\ Len(conditions) < MaxConditions
    /\ \E condition \in RawConditions :
          /\ SetBuilder(with_raw_condition(Builder, condition))
          /\ Called("with_raw_condition", condition)

WithCombinedConditions ==
    /\ Unbuilt
    /\ Len(conditions) < MaxConditions
    /\ \E f \in ClosurePool :
          /\ SetBuilder(with_combined_conditions(Builder, f))
          /\ Called("with_combined_conditions", f)

\* build() hands the fragments over and fetch_paginated makes the WHERE clause
BuildWhere ==
    /\ Unbuilt
    /\ norm' = [op |-> "build", out |-> build(Builder),
                where_clause |-> build_where_clause(build(Builder)[1])]
    /\ call' = [op |-> "build", arg |-> "none",
                before |-> [conditions |-> conditions, arguments |-> arguments]]
    /\ UNCHANGED <<protection, dialect, valid_columns, protection_enabled,
                   conditions, arguments, params, req>>

NextFragments ==
    \/ FragmentSearch \/ FragmentFilters \/ FragmentDateRange \/ FragmentCondition
    \/ FragmentDisableProtection \/ WithRawCondition \/ WithCombinedConditions
    \/ BuildWhere

SpecFragments == InitFragments /\ [][NextFragments]_vars

IsPrefix(s, t) == Len(s) <= Len(t) /\ SubSeq(t, 1, Len(s)) = s

\* the parts of a token text between its " AND " literals
RECURSIVE split_and(_, _)
split_and(tokens, part) ==
    IF tokens = <<>> THEN << part >>
    ELSE IF Head(tokens) = Lit(" AND ")
         THEN << part >> \o split_and(Tail(tokens), <<>>)
    ELSE split_and(Tail(tokens), Append(part, Head(tokens)))

C26_FiltersSkipNullAndEmpty ==
    call.op = "with_filters" =>
        LET kept == SelectSeq(params.filters,
                        LAMBDA e : /\ is_column_safe(Before, e.key)
                                   /\ e.value # None
                                   /\ unwrap(e.value) # <<>>)
            ahead == Len(call.before.arguments)
        IN  /\ conditions = call.before.conditions \o
                  [ i \in DOMAIN kept |->
                      << Ident(dialect_quote_identifier(dialect, kept[i].key)),
                         Lit(" = "),
                         Placeholder(dialect_placeholder(dialect, ahead + i)),
                         Cast(dialect_type_cast(dialect, unwrap(kept[i].value))) >> ]
            /\ arguments = call.before.arguments \o
                  [ i \in DOMAIN kept |-> [ty |-> "string", v |-> unwrap(kept[i].value)] ]

(***************************************************************************)
(* Specification of the search sanitizer: search_deserialize is applied to *)
(* a raw search value, short texts over letters, digits, spaces, hyphens,  *)
(* a tab and a statement terminator, and long texts around the length cap. *)
(***************************************************************************)
SearchChars == {"a", "1", " ", "-", ";", "\t"}

\* the longest of the short raw search texts
MaxTermLen == 3

Repeat(c, n) == [i \in 1..n |-> c]

\* texts whose sanitized form reaches the cap: a space at the cap, before it
\* and after it, and no space at all
LongTexts ==
    { Repeat("a", DEFAULT_MAX_FIELD_LENGTH - 1) \o <<" ", "b">>,
      Repeat("a", DEFAULT_MAX_FIELD_LENGTH - 2) \o <<" ", "b", "c">>,
      Repeat("a", DEFAULT_MAX_FIELD_LENGTH) \o <<" ", "b">>,
      Repeat("a", DEFAULT_MAX_FIELD_LENGTH + 1),
      Repeat("a", DEFAULT_MAX_FIELD_LENGTH - 1) \o <<";", " ", " ", "b">>,
      <<" ">> \o Repeat("-", DEFAULT_MAX_FIELD_LENGTH) }

RawSearches ==
    { None } \cup
    { Some(t) : t \in UNION { [1..n -> SearchChars] : n \in 0..MaxTermLen } \cup LongTexts }

InitSanitize ==
    /\ protection = ColumnProtection_default
    /\ BuilderIdle
    /\ params = QueryParams_default
    /\ req = IdleReq
    /\ call = NoCall
    /\ \E raw \in RawSearches : norm = [op |-> "raw", raw |-> raw]

\* the search key of the input is deserialized
SearchDeserialize ==
    /\ norm.op = "raw"
    /\ norm' = [norm EXCEPT !.op = "deserialized"]
    /\ call' = [op |-> "search_deserialize", n |-> 0, arg |-> norm.raw,
                out |-> search_deserialize(norm.raw)]
    /\ UNCHANGED <<protection, dialect, valid_columns, protection_enabled,
                   conditions, arguments, params, req>>

\* the sanitized term is sent back as the search key of a later request
SearchDeserializeAgain ==
    /\ norm.op = "deserialized"
    /\ norm' = [norm EXCEPT !.op = "again"]
    /\ call' = [op |-> "again", n |-> 0, arg |-> call.out,
                out |-> search_deserialize(call.out)]
    /\ UNCHANGED <<protection, dialect, valid_columns, protection_enabled,
                   conditions, arguments, params, req>>

NextSanitize == SearchDeserialize \/ SearchDeserializeAgain

SpecSanitize == InitSanitize /\ [][NextSanitize]_vars

\* the characters of a raw search value that the sanitizer keeps as part of a
\* word
Remains(raw) ==
    IF raw = None THEN <<>>
    ELSE SelectSeq(unwrap(raw), LAMBDA c : is_ascii_alphanumeric(c) \/ c = "-")

\* C27: search_deserialize returns either no term or a term of letters,
\* digits, spaces and hyphens only, without a space at either end, without two
\* spaces in a row and of at most DEFAULT_MAX_FIELD_LENGTH characters; it
\* returns no term exactly when nothing remains of the input; and sanitizing
\* its result again returns the same result.
C27_SearchTermIsSanitized ==
    /\ call.op = "search_deserialize" =>
          /\ (call.out = None) <=> (Remains(call.arg) = <<>>)
          /\ call.out # None =>
                LET term == unwrap(call.out)
                IN  /\ \A i \in DOMAIN term :
                          is_ascii_alphanumeric(term[i]) \/ term[i] \in {" ", "-"}
                    /\ term[1] # " " /\ term[Len(term)] # " "
                    /\ \A i \in 1..(Len(term) - 1) : ~ (term[i] = " " /\ term[i + 1] = " ")
                    /\ Len(term) <= DEFAULT_MAX_FIELD_LENGTH
    /\ call.op = "again" => call.out = call.arg

(***************************************************************************)
(* The provided closures and column protection                             *)
(***************************************************************************)
\* the three helpers of the provided closures on a builder whose protection
\* was disabled before them
helpers_without_protection(p, fields) ==
    build(with_date_range(
              with_filters(
                  with_search(disable_protection(QueryBuilder_new("postgres", fields)),
                              p), p), p))

\* C28: with protection disabled, the helpers admit every column that
\* has_column accepts, fields that is_safe rejects included, and this is what
\* the closure build_query_with_disabled_protection hands to fetch_paginated.
C28_DisabledProtectionAdmitsFields ==
    (req.pc # "new" /\ req.build_query_fn = "build_query_with_disabled_protection") =>
        req.built[1] = helpers_without_protection(params, valid_columns)

(***************************************************************************)
(* Specification of fetch_paginated on a base query that carries bound     *)
(* arguments: the QueryAs handed to PaginatedQueryBuilder::new holds its   *)
(* SQL text and the arguments bound to it.                                 *)
(***************************************************************************)
acme == <<"a","c","m","e">>

\* sqlx::query_as(..).bind(..): base queries with no, one and two arguments
BaseQueries ==
    { [ sql |-> select_users, arguments |-> <<>> ],
      [ sql |-> select_users \o <<" ","W","H","E","R","E"," ","t"," ","="," ","$","1">>,
        arguments |-> << [ty |-> "string", v |-> acme] >> ],
      [ sql |-> select_orders \o <<" ","W","H","E","R","E"," ","t"," ","="," ","$","1",
                                   " ","A","N","D"," ","n"," ",">"," ","$","2">>,
        arguments |-> << [ty |-> "string", v |-> acme], [ty |-> "int", v |-> 18] >> ] }

InitBase ==
    /\ protection = ColumnProtection_default
    /\ dialect = "postgres"
    /\ valid_columns = RecordFields
    /\ protection_enabled = TRUE
    /\ conditions = <<>>
    /\ arguments = <<>>
    /\ params \in FetchParamsPool
    /\ norm = IdleNorm
    /\ call = NoCall
    /\ \E query \in BaseQueries, enabled \in BOOLEAN,
          fn \in {"build_query_with_safe_defaults", "build_query_with_disabled_protection"} :
          req = [ pc |-> "new", query |-> query, totals_count_enabled |-> enabled,
                  build_query_fn |-> fn, issued |-> <<>>, rows |-> 0 ]

BaseFrame ==
    UNCHANGED <<protection, dialect, valid_columns, protection_enabled,
                conditions, arguments, params, norm, call>>

\* fetch_paginated up to its first await; the base SQL is self.query.sql()
BaseFetchPaginated ==
    /\ req.pc = "new"
    /\ \E statement \in
            { statement_of(first_statement(req.totals_count_enabled),
                           req.build_query_fn, req.query.sql, params, valid_columns) } :
          req' = [req EXCEPT !.pc = IF statement.kind = "COUNT" THEN "count" ELSE "page",
                             !.issued = Append(@, statement)]
    /\ BaseFrame

\* the COUNT statement returns and the PAGE statement is sent
BaseCountReturns ==
    /\ req.pc = "count"
    /\ req' = [req EXCEPT
            !.pc = "page",
            !.issued = Append(@, page_statement(req.build_query_fn, req.query.sql,
                                                params, valid_columns))]
    /\ BaseFrame

\* the PAGE statement returns its rows
BasePageReturns ==
    /\ req.pc = "page"
    /\ \E rows \in 0..MaxRows : req' = [req EXCEPT !.pc = "done", !.rows = rows]
    /\ BaseFrame

NextBase == BaseFetchPaginated \/ BaseCountReturns \/ BasePageReturns

SpecBase == InitBase /\ [][NextBase]_vars

\* C29: when the base query carries k bound arguments, every statement
\* fetch_paginated sends binds those k arguments first and numbers the
\* placeholders of the generated conditions from k + 1.
C29_BaseArgumentsSurvive ==
    \A n \in DOMAIN req.issued :
        LET statement == req.issued[n]
            k == Len(req.query.arguments)
        IN  /\ IsPrefix(req.query.arguments, statement.arguments)
            /\ Ordinals(<< statement.sql >>) = (k + 1)..Len(statement.arguments)

(***************************************************************************)
(* Specification of fetch_paginated against a backend other clients write  *)
(* to: the table holds a number of rows matching the request, the COUNT    *)
(* and the PAGE statement are two round-trips on the pool, each answered   *)
(* from the rows the table holds when it runs, and an insert or a delete   *)
(* of another client may commit at any moment.                             *)
(***************************************************************************)
\* the most rows the table holds and the most writes of other clients
MaxTableRows == 12
MaxWrites == 2

\* the rows the table holds at first
InitialRows == { 0, 1, 9, 10, 11 }

\* the rows a SELECT with LIMIT page_size OFFSET (page - 1) * page_size returns
\* from a table of the given number of matching rows
rows_of_page(table_rows, pagination) ==
    clamp(table_rows - (pagination.page - 1) * pagination.page_size,
          0, pagination.page_size)

InitWrites ==
    /\ protection = ColumnProtection_default
    /\ dialect = "postgres"
    /\ valid_columns = RecordFields
    /\ protection_enabled = TRUE
    /\ conditions = <<>>
    /\ arguments = <<>>
    /\ call = NoCall
    /\ \E pagination \in { DefaultPagination, [page |-> 2, page_size |-> 10] } :
          params = [QueryParams_default EXCEPT !.pagination = pagination]
    /\ \E table_rows \in InitialRows : norm = [rows |-> table_rows, writes |-> 0]
    /\ \E enabled \in BOOLEAN :
          req = [ pc |-> "new", totals_count_enabled |-> enabled,
                  totals |-> None, result |-> None ]

WritesFrame ==
    UNCHANGED <<protection, dialect, valid_columns, protection_enabled,
                conditions, arguments, params, call>>

\* fetch_paginated up to its first await
WritesFetchPaginated ==
    /\ req.pc = "new"
    /\ req' = IF first_statement(req.totals_count_enabled) = "COUNT"
              THEN [req EXCEPT !.pc = "count"]
              ELSE [req EXCEPT !.pc = "page",
                        !.totals = Some(totals(req.totals_count_enabled, 0,
                                               params.pagination))]
    /\ UNCHANGED norm
    /\ WritesFrame

\* the backend answers the COUNT statement from the rows it holds now
BackendCount ==
    /\ req.pc = "count"
    /\ req' = [req EXCEPT
            !.pc = "page",
            !.totals = Some(totals(req.totals_count_enabled, norm.rows, params.pagination))]
    /\ UNCHANGED norm
    /\ WritesFrame

\* the backend answers the PAGE statement from the rows it holds now
BackendPage ==
    /\ req.pc = "page"
    /\ req' = [req EXCEPT
            !.pc = "done",
            !.result = Some(response(rows_of_page(norm.rows, params.pagination),
                                     unwrap(req.totals)))]
    /\ UNCHANGED norm
    /\ WritesFrame

\* another client commits an insert of a matching row
OtherClientInserts ==
    /\ norm.writes < MaxWrites /\ norm.rows < MaxTableRows
    /\ norm' = [rows |-> norm.rows + 1, writes |-> norm.writes + 1]
    /\ UNCHANGED req
    /\ WritesFrame

\* another client commits a delete of a matching row
OtherClientDeletes ==
    /\ norm.writes < MaxWrites /\ norm.rows > 0
    /\ norm' = [rows |-> norm.rows - 1, writes |-> norm.writes + 1]
    /\ UNCHANGED req
    /\ WritesFrame

NextWrites ==
    \/ WritesFetchPaginated \/ BackendCount \/ BackendPage
    \/ OtherClientInserts \/ OtherClientDeletes

SpecWrites == InitWrites /\ [][NextWrites]_vars

\* the smaller of two integers
min(x, y) == IF x <= y THEN x ELSE y

\* C30: a response with totals enabled is consistent whatever other clients
\* write between the COUNT and the PAGE statement: it holds at most
\* min(page_size, total) records, and when total is 0 it holds no record and
\* total_pages is 0.
C30_ResponseConsistentUnderWrites ==
    (req.pc = "done" /\ req.totals_count_enabled) =>
        LET r == unwrap(req.result).ok
        IN  /\ r.records <= min(unwrap(r.pagination).page_size, unwrap(r.total))
            /\ unwrap(r.total) = 0 => (r.records = 0 /\ unwrap(r.total_pages) = 0)

====
